---- MODULE Spec2Model ----
(***************************************************************************)
(* The client-side sync engine of LifeOS: the App component's dirty        *)
(* tracking, debounced autosave, forceSync and on-demand refresh           *)
(* (src/src/App.jsx) on top of the useGoogleDrive hook's per-key save      *)
(* (src/src/hooks/useGoogleDrive.js) and a remote file store.              *)
(*                                                                         *)
(* JavaScript runs one task at a time and an async function gives up the   *)
(* processor only at an await, so every action below is one run-to-        *)
(* completion piece of a handler: from its call (or from the settling of   *)
(* the remote request it awaits) to its next await of a remote request,    *)
(* the promise reactions it triggers included.  A remote request takes     *)
(* effect on the store and delivers its response in one step.              *)
(***************************************************************************)
EXTENDS Integers, Sequences, FiniteSets, TLC

\* ------------------------------------------------------------- bounds
\* A behaviour holds at most limits.edits user mutations (journal, task, note),
\* limits.syncs forceSync / refresh calls and limits.fails failing remote
\* requests; each specification sets its own limits.
RaceEdits  == 2    \* Spec: the whole engine
RaceSyncs  == 1
RaceFails  == 1
AutosaveEdits == 2 \* SpecAutosave: edits and their debounced saves
AutosaveFails == 1
DemoEdits  == 3    \* SpecDemo: a session that is not signed in, or a demo one
DemoSyncs  == 1
TokenEdits == 2    \* SpecToken: the same, with and without a usable token
TokenFails == 1
IdentityEdits == 2 \* SpecIdentity: journal autosave across a change of account
IdentityFails == 1
MaxTitle   == 2    \* SpecNoteFormat: length of a note's title and of its content
MaxContent == 3
HydrateFails == 2  \* SpecHydrate: loadDataFromDrive at startup
ForceEdits == 2
ForceSyncs == 1
ForceFails == 1
DbSyncFails == 1   \* SpecDbSync: hydration, then the syncToDb effect
MaxDbRuns == 2     \* the syncToDb calls that may overlap
SettleEdits == 2   \* SpecSettle: the saves of the Drive hook, every request answered
SettleFails == 1
DriveEdits == 3    \* SpecDrive: the saves of the Drive hook
DriveFails == 1
MaxTasks   == 2    \* length of the task list
TaskIdEdits == 2
PersistEdits == 2
HydrateEdits == 1
DeleteEdits == 3
HandoverEdits == 2
HandoverSyncs == 1

Dates    == {"d1", "d2"}
NoteIds  == {"n1"}
Contents == {"", "a", "b"}
TaskIds  == 1 .. MaxTasks

Undefined == "undefined"     \* a missing property / JS undefined
Null      == "null"          \* a JS null return value
NoTimer   == "no-timer"      \* no pending setTimeout

DbRuns    == 1 .. MaxDbRuns
IdleDbRun == [pc |-> "idle", coll |-> 1,
              args |-> [journal |-> [d \in Dates |-> Undefined], tasks |-> <<>>,
                        notes |-> [n \in NoteIds |-> Undefined]],
              failed |-> FALSE, overlapped |-> FALSE, after |-> {}]
Users     == {"u1", "u2"}        \* the accounts (user.email)
Keys      == ({"journal"} \X Dates) \cup ({"note"} \X NoteIds)
JournalKey(date) == <<"journal", date>>   \* cacheKey `journal:${date}`
NoteKey(id)      == <<"note", id>>        \* cacheKey `note:${id}`

\* The slots of the call tables: never exhausted, a behaviour starts at most one
\* call per edit and one per forceSync at a time.
Slots(lim) == 1 .. (lim.edits + lim.syncs + 1)

VARIABLES
  isAuthenticated, isDemo,          \* useFirebaseAuth: the session
  accessToken,                      \* useFirebaseAuth: the accessToken state
  savedToken,                       \* sessionStorage holds google_access_token
  tokenExpired,                     \* Date.now() >= google_token_expiry
  userEmail,                        \* user?.email, the signed-in identity
  dataLoaded,                       \* App state: hydration was attempted
  syncError,                        \* App state: message of the hydration error
  folders,                          \* useGoogleDrive state: folder ids resolved
  effectPending,                    \* the hydration effect is due to run (deps changed)
  loadRuns,                         \* the loadDataFromDrive calls in progress
  noteIn,                           \* a note handed to saveNote
  noteRaw,                          \* the file text saveNote built for it
  noteOut,                          \* what parseNoteContent made of that text
  isDbReady,                        \* useDatabase state: db.open() has resolved
  dbStore,                          \* IndexedDB: the journal, tasks and notes collections
  lastSync,                         \* IndexedDB: the writes of syncMeta 'lastSync' so far
  searchIndex,                      \* the documents of the search index (searchIndexRef)
  mountBuild,                       \* useSearch: the buildIndex call of the mount effect
  dbSyncRuns,                       \* the syncToDb calls of the effect in progress
  dbDeps,                           \* the dependencies of the syncToDb effect at its last run
  journalEntries,                   \* date -> content (Undefined: no entry)
  originalJournalContent,           \* originalJournalContentRef.current
  dirtyJournals,                    \* the Set, in insertion order
  journalSaveTimeout,               \* date -> content captured by the pending timer
  tasks,                            \* the task list
  originalTasks,                    \* originalTasksRef.current (serialized)
  tasksDirty,
  tasksSaveTimeout,                 \* the task list captured by the pending timer
  notes,                            \* note id -> content (Undefined: no note)
  syncStatus,
  forceSyncRun,                     \* the forceSync call in progress
  refreshEntryRun,                  \* date -> position of refreshSingleEntry
  refreshTasksRun,                  \* position of refreshTasks
  refreshResult,                    \* what the last refresh call returned
  fileIdCache,                      \* fileIdCache.current
  pendingSaves,                     \* pendingSaves.current: key -> promise (its call)
  saveCalls,                        \* saveJournalEntry / saveNote calls in progress
  tasksCalls,                       \* saveTasks calls in progress
  driveFiles,                       \* remote: key -> files of that name, oldest first
  driveTasksFiles,                  \* remote: the tasks.json files, oldest first
  otherDriveFiles,                  \* remote: the files of the other account
  otherDriveTasksFiles,             \* remote: the tasks.json files of the other account
  driveLog,                         \* history: the write requests of each key
  nEdits, nSyncs, nFails,           \* mutations, sync calls and failures so far
  limits                            \* the bounds of the behaviour

authVars  == <<isAuthenticated, isDemo, accessToken, savedToken, tokenExpired, userEmail>>
loadVars  == <<dataLoaded, syncError, folders, effectPending, loadRuns>>
loadRest  == <<dataLoaded, folders, effectPending, loadRuns>>
appVars   == <<authVars, loadVars, journalEntries, originalJournalContent,
               dirtyJournals, journalSaveTimeout, tasks, originalTasks, tasksDirty,
               tasksSaveTimeout, notes, syncStatus, forceSyncRun, refreshEntryRun,
               refreshTasksRun, refreshResult>>
driveVars == <<fileIdCache, pendingSaves, saveCalls, tasksCalls, driveFiles,
               driveTasksFiles, otherDriveFiles, otherDriveTasksFiles, driveLog>>
noteVars  == <<noteIn, noteRaw, noteOut>>
cacheVars == <<isDbReady, dbStore, lastSync, searchIndex, mountBuild, dbSyncRuns, dbDeps>>
vars      == <<appVars, driveVars, nEdits, nSyncs, nFails, limits, noteVars, cacheVars>>

\* ------------------------------------------------------------ helpers
Range(s) == {s[i] : i \in DOMAIN s}
Without(s, x) == SelectSeq(s, LAMBDA y : y # x)
SeqAdd(s, x) == IF x \in Range(s) THEN s ELSE Append(s, x)   \* new Set(prev).add(x)

\* if (!isAuthenticated || user?.isDemo) return
Remote == isAuthenticated /\ ~isDemo

\* getAccessToken(): the token of sessionStorage if it has not expired, else the
\* accessToken state (the same token, set at sign-in; null after a reload
\* that found the stored token expired).
Token == "token"
GetAccessToken ==
  IF savedToken /\ ~tokenExpired THEN Token ELSE accessToken

\* How a remote request may be answered: the server rejects an expired token,
\* and a behaviour holds at most limits.fails failures of other causes.
MayAnswer(ok) ==
  IF ok THEN ~tokenExpired ELSE tokenExpired \/ nFails < limits.fails

\* JSON.stringify of a task list: the fields of each task, in order.
RECURSIVE Stringify(_)
Stringify(ts) ==
  IF ts = <<>> THEN <<>>
  ELSE <<Head(ts).id, IF Head(ts).completed THEN 1 ELSE 0>> \o Stringify(Tail(ts))
NullTasks == << -1 >>        \* originalTasksRef.current = null

\* originalJournalContentRef.current[date] || ''
OriginalOrEmpty(date) ==
  IF originalJournalContent[date] = Undefined THEN "" ELSE originalJournalContent[date]

\* ------------------------------------------------- useGoogleDrive: save
NoRequests == [creates |-> 0, updates |-> 0, last |-> Undefined]

\* A save call; user is the account whose token and folder the call took when
\* it began.
IdleCall == [pc |-> "idle", key |-> <<"", "">>, content |-> "", kind |-> "",
             fileId |-> 0, awaiting |-> 0, waiters |-> <<>>, user |-> ""]

\* Drive file ids: the id of the i-th file of a name in the store of an account.
\* The ids of the two accounts are disjoint, and 0 is no id.
FileId(user, i) == IF user = "u1" THEN i ELSE 0 - i
OwnerOf(fileId) == IF fileId < 0 THEN "u2" ELSE "u1"
IndexOf(fileId) == IF fileId < 0 THEN 0 - fileId ELSE fileId

\* The files an account's token gives access to.
StoreOf(user) == IF user = userEmail THEN driveFiles ELSE otherDriveFiles

\* updateFile with the id of a file of another account.
Foreign(call) == call.fileId # 0 /\ OwnerOf(call.fileId) # call.user

FreeSlot(cs) == CHOOSE i \in DOMAIN cs :
                  cs[i].pc = "idle" /\ \A j \in DOMAIN cs : j < i => cs[j].pc # "idle"

\* saveJournalEntry / saveNote after the wait for a pending save: the cache
\* lookup, and with a cached id the remote write dispatched at once.
ResumedCall(key, content, kind, cache) ==
  IF cache[key] # 0
    THEN [IdleCall EXCEPT !.pc = "write", !.key = key, !.content = content,
                          !.kind = kind, !.fileId = cache[key]]
    ELSE [IdleCall EXCEPT !.pc = "findFile", !.key = key, !.content = content,
                          !.kind = kind]

\* saveJournalEntry / saveNote from the call to its first await.
StartedCall(key, content, kind, pend, cache) ==
  IF pend[key] # 0
    THEN [IdleCall EXCEPT !.pc = "awaitPending", !.key = key, !.content = content,
                          !.kind = kind, !.awaiting = pend[key]]
    ELSE ResumedCall(key, content, kind, cache)

\* The call table with a new call in slot id (a waiter joins its promise's reactions).
WithCall(cs, id, call) ==
  LET cs1 == [cs EXCEPT ![id] = [call EXCEPT !.user = userEmail]]
  IN IF call.pc = "awaitPending"
       THEN [cs1 EXCEPT ![call.awaiting].waiters = Append(@, id)]
       ELSE cs1

\* pendingSaves.current[cacheKey] = savePromise, once the write is dispatched.
WithPending(pend, id, call) ==
  IF call.pc = "write" THEN [pend EXCEPT ![call.key] = id] ELSE pend

\* ----------------------------------------------------- App: forceSync
IdleForce == [pc |-> "idle", dates |-> <<>>, date |-> "",
              entries |-> [d \in Dates |-> Undefined],
              tasksDirty |-> FALSE, tasks |-> <<>>, startDates |-> <<>>,
              written |-> <<>>]

NoTasksTimer == [pending |-> FALSE, tasks |-> <<>>]

IdleTasksCall == [pc |-> "idle", tasks |-> <<>>, kind |-> "", fileId |-> 0]

\* saveTasks from the call to its first await (await findFile).
StartedTasksCall(ts, kind) ==
  [pc |-> "findFile", tasks |-> ts, kind |-> kind, fileId |-> 0]

\* forceSync from the point where it goes on to the next dirty date, up to its
\* next await: "for (const date of dirtyJournals) { const entry =
\* journalEntries[date]; if (entry) { await saveJournalEntry(...) ... } }
\* setDirtyJournals(new Set()); if (tasksDirty) { await saveTasks(tasks) ... }
\* setSyncStatus('synced')", over the values the call captured.
RECURSIVE AdvanceForce(_, _, _, _, _)
AdvanceForce(run, cs, pend, cache, tcs) ==
  IF run.dates # <<>>
    THEN LET d == Head(run.dates) IN
         IF run.entries[d] = Undefined
           THEN AdvanceForce([run EXCEPT !.dates = Tail(@)], cs, pend, cache, tcs)
           ELSE LET id   == FreeSlot(cs)
                    call == StartedCall(JournalKey(d), run.entries[d], "force", pend, cache)
                IN [run |-> [run EXCEPT !.pc = "journal", !.date = d, !.dates = Tail(@)],
                    calls |-> WithCall(cs, id, call),
                    pending |-> WithPending(pend, id, call),
                    tcalls |-> tcs, cleared |-> FALSE, done |-> FALSE]
    ELSE IF run.tasksDirty
      THEN [run |-> [run EXCEPT !.pc = "tasks"], calls |-> cs, pending |-> pend,
            tcalls |-> [tcs EXCEPT ![FreeSlot(tcs)] = StartedTasksCall(run.tasks, "force")],
            cleared |-> TRUE, done |-> FALSE]
      ELSE [run |-> IdleForce, calls |-> cs, pending |-> pend, tcalls |-> tcs,
            cleared |-> TRUE, done |-> TRUE]

\* What a refresh call returned: null, a content, or a task list.
NoResult == [op |-> "", date |-> "", content |-> Null, tasks |-> <<>>]
EntryResult(date, content) ==
  [op |-> "refreshSingleEntry", date |-> date, content |-> content, tasks |-> <<>>]
TasksResult(isNull, ts) ==
  [op |-> "refreshTasks", date |-> "", content |-> IF isNull THEN Null ELSE "tasks",
   tasks |-> ts]

\* ------------------------------- useGoogleDrive: the text of a note file
\* Strings are sequences of symbols: a letter, a space, a line break, the
\* delimiter '---', the keys of the header and the default values.
NoText   == <<"none">>          \* no text, no note (null)
NoNote   == [title |-> NoText, folder |-> NoText, createdAt |-> NoText,
             updatedAt |-> NoText, content |-> NoText]
Root     == <<"root">>
Untitled == <<"Untitled">>
Now      == <<"now">>           \* new Date().toISOString()
IsSpace(c) == c \in {" ", "\n"}  \* \s

\* saveNote: the markdown content with frontmatter metadata.
NoteText(note) ==
  <<"---", "\n", "title:", " ">> \o note.title
    \o <<"\n", "folder:", " ">> \o (IF note.folder = <<>> THEN Root ELSE note.folder)
    \o <<"\n", "createdAt:", " ">> \o note.createdAt
    \o <<"\n", "updatedAt:", " ">> \o note.updatedAt
    \o <<"\n", "---", "\n", "\n">> \o note.content

\* String.prototype.trim.
RECURSIVE Trim(_)
Trim(str) ==
  IF str = <<>> THEN <<>>
  ELSE IF IsSpace(Head(str)) THEN Trim(Tail(str))
  ELSE IF IsSpace(str[Len(str)]) THEN Trim(SubSeq(str, 1, Len(str) - 1))
  ELSE str

\* getValue(key): frontmatter.match(/^key:\s*(.*)$/m), the first line that
\* starts with the key; \s* also runs over line breaks, (.*) stops at one.
GetValue(fm, key) ==
  LET starts == {p \in DOMAIN fm : fm[p] = key /\ (p = 1 \/ fm[p - 1] = "\n")}
  IN IF starts = {} THEN NoText
     ELSE LET p  == CHOOSE x \in starts : \A y \in starts : x <= y
              q  == CHOOSE x \in (p + 1) .. (Len(fm) + 1) :
                      /\ \A i \in (p + 1) .. (x - 1) : IsSpace(fm[i])
                      /\ x = Len(fm) + 1 \/ ~IsSpace(fm[x])
              e  == CHOOSE x \in (q - 1) .. Len(fm) :
                      /\ \A i \in q .. x : fm[i] # "\n"
                      /\ x = Len(fm) \/ fm[x + 1] = "\n"
          IN Trim(SubSeq(fm, q, e))

\* getValue(key) || fallback
ValueOr(fm, key, fallback) ==
  IF GetValue(fm, key) = NoText \/ GetValue(fm, key) = <<>> THEN fallback
  ELSE GetValue(fm, key)

\* parseNoteContent: rawContent.match(/^---\n([\s\S]*?)\n---\n\n?([\s\S]*)$/),
\* the header up to the first line that is the delimiter, one blank line
\* dropped, the rest the content; without a match the whole text is the content.
ParseNoteContent(raw) ==
  IF raw = <<>> THEN NoNote
  ELSE LET ends == {i \in 2 .. (Len(raw) - 3) :
                      raw[i + 1] = "\n" /\ raw[i + 2] = "---" /\ raw[i + 3] = "\n"}
       IN IF Len(raw) < 2 \/ raw[1] # "---" \/ raw[2] # "\n" \/ ends = {}
            THEN [title |-> Untitled, content |-> raw, folder |-> Root,
                  createdAt |-> Now, updatedAt |-> Now]
            ELSE LET i    == CHOOSE x \in ends : \A y \in ends : x <= y
                     fm   == SubSeq(raw, 3, i)
                     rest == SubSeq(raw, i + 4, Len(raw))
                 IN [title     |-> ValueOr(fm, "title:", Untitled),
                     content   |-> IF rest # <<>> /\ Head(rest) = "\n" THEN Tail(rest)
                                                                        ELSE rest,
                     folder    |-> ValueOr(fm, "folder:", Root),
                     createdAt |-> ValueOr(fm, "createdAt:", Now),
                     updatedAt |-> ValueOr(fm, "updatedAt:", Now)]

\* saveNote builds the text of the file for a note.
SerializeNote ==
  /\ noteIn # NoNote
  /\ noteRaw = NoText
  /\ noteRaw' = NoteText(noteIn)
  /\ UNCHANGED <<noteIn, noteOut, appVars, driveVars, nEdits, nSyncs, nFails, limits,
                 cacheVars>>

\* loadNote / listNotes parse the text of the file they downloaded.
ParseNote ==
  /\ noteRaw # NoText
  /\ noteOut = NoNote
  /\ noteOut' = ParseNoteContent(noteRaw)
  /\ UNCHANGED <<noteIn, noteRaw, appVars, driveVars, nEdits, nSyncs, nFails, limits,
                 cacheVars>>

\* ------------------------------------------- App: loadDataFromDrive
LoadRuns == {1, 2}
NotAuthenticated == "Not authenticated"
RequestFailed    == "Failed"        \* 'Failed to search files', 'Failed to list files', ...

\* A loadDataFromDrive call: where it is, the listed dates still to load and
\* its local journalData.
IdleLoad == [pc |-> "idle", dates |-> <<>>, data |-> [d \in Dates |-> Undefined]]

\* ------------------------------------- App: the syncToDb effect
\* The entities the effect hands to syncAllToDb(notes, tasks, journalEntries).
Entities == [journal |-> journalEntries, tasks |-> tasks, notes |-> notes]

\* The dependencies of the effect: dataLoaded, isDbReady, notes.length,
\* tasks.length, Object.keys(journalEntries).length.
Count(f) == Cardinality({x \in DOMAIN f : f[x] # Undefined})
SyncToDbDeps ==
  <<dataLoaded, isDbReady, Count(notes), Len(tasks), Count(journalEntries)>>

\* --------------------------------------------- utils/db, useDatabase
\* The collections: notes keyed by id and journal keyed by date (Undefined: no
\* record), tasks as the set of their records, at most one per id.
Collections == <<"notes", "tasks", "journal">>
EmptyStore == [journal |-> [d \in Dates |-> Undefined], tasks |-> {},
               notes |-> [n \in NoteIds |-> Undefined]]

\* table.put(record): the record takes the place of the one with its key.
RECURSIVE PutTasks(_, _)
PutTasks(records, ts) ==
  IF ts = <<>> THEN records
  ELSE PutTasks({x \in records : x.id # Head(ts).id} \cup {Head(ts)}, Tail(ts))

\* table.bulkPut(entities.map(...)) on a collection.
BulkPut(coll, records, entities) ==
  IF coll = "tasks" THEN PutTasks(records, entities)
  ELSE [k \in DOMAIN records |-> IF entities[k] # Undefined THEN entities[k] ELSE records[k]]

\* The collections after clear() and bulkPut() of each with the given entities.
Records(entities) ==
  [c \in {"notes", "tasks", "journal"} |-> BulkPut(c, EmptyStore[c], entities[c])]

\* -------------------------------------------------- useSearch: buildIndex
DateOrder == <<"d1", "d2">>     \* toArray() returns the records in key order
NoteOrder == <<"n1">>
RECURSIVE TasksInOrder(_)
TasksInOrder(records) ==
  IF records = {} THEN <<>>
  ELSE LET first == CHOOSE x \in records : \A y \in records : x.id <= y.id
       IN <<first>> \o TasksInOrder(records \ {first})

\* The documents buildIndex adds for the records of the collections, in the
\* order it adds them: `note:${id}`, `task:${id}`, `journal:${date}`.
Docs(store) ==
  SelectSeq([i \in DOMAIN NoteOrder |->
               [type |-> "note", key |-> NoteOrder[i], title |-> store.notes[NoteOrder[i]]]],
            LAMBDA doc : doc.title # Undefined)
  \o [i \in DOMAIN TasksInOrder(store.tasks) |->
        [type |-> "task", key |-> "task", title |-> TasksInOrder(store.tasks)[i]]]
  \o SelectSeq([i \in DOMAIN DateOrder |->
                  [type |-> "journal", key |-> DateOrder[i],
                   title |-> store.journal[DateOrder[i]]]],
               LAMBDA doc : doc.title # Undefined)

\* The id of a document in the index.
DocId(doc) == IF doc.type = "task" THEN <<"task", doc.title.id>> ELSE <<doc.type, doc.key>>

\* searchIndexRef.current.add(doc) for each document in turn: MiniSearch throws
\* on a document whose id is in the index already, which ends buildIndex in its
\* catch block with the documents added so far.
RECURSIVE AddAll(_, _)
AddAll(index, docs) ==
  IF docs = <<>> THEN index
  ELSE IF \E x \in index : DocId(x) = DocId(Head(docs)) THEN index
  ELSE AddAll(index \cup {Head(docs)}, Tail(docs))

\* buildIndex up to its await: initializeIndex() puts a fresh index in the ref.
FreshIndex == {}

\* The index a buildIndex call leaves when nothing overlaps it.
BuiltIndex(store) == AddAll(FreshIndex, Docs(store))

\* The effect has run for the present data and its work has settled.
CacheInSync ==
  /\ isDbReady = TRUE
  /\ dbStore = Records(Entities)
  /\ lastSync = 0
  /\ searchIndex = BuiltIndex(Records(Entities))
  /\ mountBuild = "idle"
  /\ dbSyncRuns = [r \in DbRuns |-> IdleDbRun]
  /\ dbDeps = SyncToDbDeps

\* db.open() resolves: setIsReady(true).
DbOpen ==
  /\ ~isDbReady
  /\ isDbReady' = TRUE
  /\ UNCHANGED <<dbStore, lastSync, searchIndex, mountBuild, dbSyncRuns, dbDeps>>
  /\ UNCHANGED <<appVars, driveVars, nEdits, nSyncs, nFails, limits, noteVars>>

\* The reads of the buildIndex call of the mount effect resolve: the documents
\* of the records are added to the index.
MountBuildDone ==
  /\ mountBuild = "read"
  /\ mountBuild' = "idle"
  /\ searchIndex' = AddAll(searchIndex, Docs(dbStore))
  /\ UNCHANGED <<isDbReady, dbStore, lastSync, dbSyncRuns, dbDeps>>
  /\ UNCHANGED <<appVars, driveVars, nEdits, nSyncs, nFails, limits, noteVars>>

\* The calls that are inside syncAllToDb; 'overlapped' records that another
\* call was inside syncAllToDb at some time during the call.
InSyncAll == {r \in DbRuns : dbSyncRuns[r].pc \in {"clear", "put", "meta"}}

\* IndexedDB runs the transactions on one collection in the order they were
\* created. 'after' of a call holds the calls whose request on the same
\* collection was created before its own and is not served yet.
\* The collection a request is on: 0 is syncMeta.
RequestOn(run) == IF run.pc = "meta" THEN 0 ELSE run.coll
PendingOn(runs, c) ==
  {q \in DbRuns : runs[q].pc \in {"clear", "put", "meta"} /\ RequestOn(runs[q]) = c}

\* The request of call r is served and the call has gone on to the position
\* next: the others wait for it no longer, and its new request, if it is one on
\* a collection, queues behind those pending there.
Served(r, next) ==
  [q \in DbRuns |->
     IF q = r
       THEN [next EXCEPT !.after = IF next.pc \in {"clear", "put", "meta"}
                                     THEN PendingOn(dbSyncRuns, RequestOn(next)) \ {r}
                                     ELSE {}]
       ELSE [dbSyncRuns[q] EXCEPT !.after = @ \ {r}]]

FreeDbRun == CHOOSE r \in DbRuns :
               dbSyncRuns[r].pc = "idle" /\ \A q \in DbRuns : q < r => dbSyncRuns[q].pc # "idle"

\* The effect runs after a render that changed one of its dependencies:
\* "if (!dataLoaded || !isDbReady) return", else syncToDb() runs up to the first
\* await of syncAllToDb(notes, tasks, journalEntries): await db.notes.clear().
SyncToDb ==
  /\ dbDeps # SyncToDbDeps
  /\ dbDeps' = SyncToDbDeps
  /\ IF dataLoaded /\ isDbReady
       THEN /\ \E r \in DbRuns : dbSyncRuns[r].pc = "idle"
            /\ dbSyncRuns' =
                 [r \in DbRuns |->
                    IF r = FreeDbRun
                      THEN [pc |-> "clear", coll |-> 1, args |-> Entities,
                            failed |-> FALSE, overlapped |-> InSyncAll # {},
                            after |-> PendingOn(dbSyncRuns, 1)]
                    ELSE IF r \in InSyncAll
                      THEN [dbSyncRuns[r] EXCEPT !.overlapped = TRUE]
                    ELSE dbSyncRuns[r]]
       ELSE UNCHANGED dbSyncRuns
  /\ UNCHANGED <<isDbReady, dbStore, lastSync, searchIndex, mountBuild>>
  /\ UNCHANGED <<appVars, driveVars, nEdits, nSyncs, nFails, limits, noteVars>>

CollectionKept(coll) == dbStore[coll]
\* table.clear(): no record is left in the collection.
ClearedCollection(coll) == EmptyStore[coll]

\* "await db.<collection>.clear()" of syncAllToDb resolves and bulkPut is
\* issued. IndexedDB runs the transactions on a collection in the order they
\* were created: the reads of the mount-time buildIndex come first.
DbClearDone(r) ==
  /\ dbSyncRuns[r].pc = "clear"
  /\ dbSyncRuns[r].after = {}
  /\ mountBuild = "idle"
  /\ dbStore' = [dbStore EXCEPT ![Collections[dbSyncRuns[r].coll]] =
                   ClearedCollection(Collections[dbSyncRuns[r].coll])]
  /\ dbSyncRuns' = Served(r, [dbSyncRuns[r] EXCEPT !.pc = "put"])
  /\ UNCHANGED <<isDbReady, lastSync, searchIndex, mountBuild, dbDeps>>
  /\ UNCHANGED <<appVars, driveVars, nEdits, nSyncs, nFails, limits, noteVars>>

IndexKept == searchIndex
\* syncToDb after "await syncAllToDb(...)": rebuildIndex() runs up to its
\* await, initializeIndex() included.
IndexAfterSync == FreshIndex

\* "await db.<collection>.bulkPut(...)" of syncAllToDb settles: the next
\* collection is cleared, after the last one syncMeta is written; a rejection
\* is caught and logged by syncAllToDb, which returns, and syncToDb goes on to
\* rebuildIndex().
DbPutDone(r) ==
  /\ dbSyncRuns[r].pc = "put"
  /\ dbSyncRuns[r].after = {}
  /\ \E ok \in BOOLEAN :
       /\ ok \/ nFails < limits.fails
       /\ nFails' = IF ok THEN nFails ELSE nFails + 1
       /\ LET run  == dbSyncRuns[r]
              coll == Collections[run.coll]
          IN IF ok
               THEN /\ dbStore' = [dbStore EXCEPT ![coll] =
                                     BulkPut(coll, @, run.args[coll])]
                    /\ dbSyncRuns' =
                         Served(r, [run EXCEPT
                                      !.pc = IF run.coll = Len(Collections)
                                               THEN "meta" ELSE "clear",
                                      !.coll = IF run.coll = Len(Collections)
                                                 THEN @ ELSE @ + 1])
                    /\ UNCHANGED searchIndex
               ELSE /\ dbSyncRuns' = Served(r, [run EXCEPT !.pc = "build",
                                                           !.failed = TRUE])
                    /\ searchIndex' = IndexAfterSync
                    /\ UNCHANGED dbStore
  /\ UNCHANGED <<isDbReady, lastSync, mountBuild, dbDeps>>
  /\ UNCHANGED <<appVars, driveVars, nEdits, nSyncs, limits, noteVars>>

\* "await db.syncMeta.put({ key: 'lastSync', ... })" resolves: syncAllToDb
\* returns and syncToDb goes on to rebuildIndex().
DbMetaDone(r) ==
  /\ dbSyncRuns[r].pc = "meta"
  /\ dbSyncRuns[r].after = {}
  /\ lastSync' = lastSync + 1
  /\ dbSyncRuns' = Served(r, [dbSyncRuns[r] EXCEPT !.pc = "build"])
  /\ searchIndex' = IndexAfterSync
  /\ UNCHANGED <<isDbReady, dbStore, mountBuild, dbDeps>>
  /\ UNCHANGED <<appVars, driveVars, nEdits, nSyncs, nFails, limits, noteVars>>

\* The reads of rebuildIndex() resolve: the documents of the records are added
\* to the index in the ref, and syncToDb returns.
BuildIndexDone(r) ==
  /\ dbSyncRuns[r].pc = "build"
  /\ searchIndex' = AddAll(searchIndex, Docs(dbStore))
  /\ dbSyncRuns' = [dbSyncRuns EXCEPT ![r] = IdleDbRun]
  /\ UNCHANGED <<isDbReady, dbStore, lastSync, mountBuild, dbDeps>>
  /\ UNCHANGED <<appVars, driveVars, nEdits, nSyncs, nFails, limits, noteVars>>

\* The steps of the effect and of the calls it made.
DbSyncNext ==
  \/ SyncToDb
  \/ \E r \in DbRuns : DbClearDone(r)
  \/ \E r \in DbRuns : DbPutDone(r)
  \/ \E r \in DbRuns : DbMetaDone(r)
  \/ \E r \in DbRuns : BuildIndexDone(r)

\* ------------------------------------------------------------- Init
InitialTasks == <<[id |-> 1, completed |-> FALSE]>>

\* The data of a session after loadDataFromDrive, with the folders resolved.
\* The remote store is either empty (a new account) or holds the entry of one
\* date and a task list; after a hydration that succeeded the entries, the task
\* list and their snapshots are what the remote store holds, after one that
\* failed (no token) they are empty and syncStatus is 'error'.
InitSession(lim, hydrated, status) ==
  /\ limits = lim
  /\ \E stored \in BOOLEAN :
       LET loaded == stored /\ hydrated IN
       /\ driveFiles = [k \in Keys |->
                          IF stored /\ k = JournalKey("d1") THEN <<"a">> ELSE <<>>]
       /\ journalEntries = [d \in Dates |-> IF loaded /\ d = "d1" THEN "a" ELSE Undefined]
       /\ originalJournalContent =
            [d \in Dates |-> IF loaded /\ d = "d1" THEN "a" ELSE Undefined]
       /\ driveTasksFiles = IF stored THEN <<InitialTasks>> ELSE <<>>
       /\ tasks = IF loaded THEN InitialTasks ELSE <<>>
       /\ originalTasks = IF loaded THEN Stringify(InitialTasks) ELSE NullTasks
  /\ dirtyJournals = <<>>
  /\ journalSaveTimeout = [d \in Dates |-> NoTimer]
  /\ tasksDirty = FALSE
  /\ tasksSaveTimeout = NoTasksTimer
  /\ notes = [n \in NoteIds |-> Undefined]
  /\ syncStatus = status
  /\ forceSyncRun = IdleForce
  /\ refreshEntryRun = [d \in Dates |-> "idle"]
  /\ refreshTasksRun = "idle"
  /\ refreshResult = NoResult
  /\ otherDriveFiles = [k \in Keys |-> <<>>]
  /\ otherDriveTasksFiles = <<>>
  /\ driveLog = [k \in Keys |-> NoRequests]
  /\ fileIdCache = [k \in Keys |-> 0]
  /\ pendingSaves = [k \in Keys |-> 0]
  /\ saveCalls = [c \in Slots(lim) |-> IdleCall]
  /\ tasksCalls = [c \in Slots(lim) |-> IdleTasksCall]
  /\ nEdits = 0
  /\ nSyncs = 0
  /\ nFails = 0

\* loadDataFromDrive is over: dataLoaded is set, and after a failure its message
\* is in syncError.
InitLoaded(lim, hydrated) ==
  /\ InitSession(lim, hydrated, IF hydrated THEN "synced" ELSE "error")
  /\ dataLoaded = TRUE
  /\ syncError = IF hydrated THEN Null ELSE NotAuthenticated
  /\ folders = hydrated
  /\ effectPending = FALSE
  /\ loadRuns = [r \in LoadRuns |-> IdleLoad]
  /\ CacheInSync

\* No note is being written to a file or read from one.
NoNoteText ==
  /\ noteIn = NoNote
  /\ noteRaw = NoText
  /\ noteOut = NoNote

InitData(lim, hydrated) == InitLoaded(lim, hydrated) /\ NoNoteText

\* An authenticated session with a valid token, after hydration.
InitWith(lim) ==
  /\ InitData(lim, TRUE)
  /\ isAuthenticated = TRUE
  /\ isDemo = FALSE
  /\ accessToken = Token
  /\ savedToken = TRUE
  /\ tokenExpired = FALSE
  /\ userEmail = "u1"

\* An authenticated session whose token is valid, or has expired since the
\* sign-in (the accessToken state still holds it), or was found expired by a
\* reload (no accessToken state, and the hydration failed for lack of a token).
InitWithToken(lim) ==
  /\ isAuthenticated = TRUE
  /\ isDemo = FALSE
  /\ savedToken = TRUE
  /\ userEmail = "u1"
  /\ \E state \in {"valid", "expired", "none"} :
       /\ tokenExpired = (state # "valid")
       /\ accessToken = IF state = "none" THEN Null ELSE Token
       /\ InitData(lim, state # "none")

\* A session that is not signed in, or of a demo identity, after the demo data
\* effect: two sample entries and sample tasks (one here) with their snapshots,
\* no token, nothing in the remote store, syncStatus still 'idle'.
InitDemoData(lim) ==
  /\ limits = lim
  /\ NoNoteText
  /\ dataLoaded = TRUE
  /\ syncError = Null
  /\ folders = FALSE
  /\ effectPending = FALSE
  /\ loadRuns = [r \in LoadRuns |-> IdleLoad]
  /\ \E demo \in BOOLEAN :
       /\ isAuthenticated = demo
       /\ isDemo = demo
       /\ userEmail = IF demo THEN "demo" ELSE Null
  /\ accessToken = Null
  /\ savedToken = FALSE
  /\ tokenExpired = FALSE
  /\ driveFiles = [k \in Keys |-> <<>>]
  /\ driveTasksFiles = <<>>
  /\ journalEntries = [d \in Dates |-> IF d = "d1" THEN "a" ELSE "b"]
  /\ originalJournalContent = [d \in Dates |-> IF d = "d1" THEN "a" ELSE "b"]
  /\ tasks = InitialTasks
  /\ originalTasks = Stringify(InitialTasks)
  /\ dirtyJournals = <<>>
  /\ journalSaveTimeout = [d \in Dates |-> NoTimer]
  /\ tasksDirty = FALSE
  /\ tasksSaveTimeout = NoTasksTimer
  /\ notes = [n \in NoteIds |-> "a"]
  /\ syncStatus = "idle"
  /\ forceSyncRun = IdleForce
  /\ refreshEntryRun = [d \in Dates |-> "idle"]
  /\ refreshTasksRun = "idle"
  /\ refreshResult = NoResult
  /\ otherDriveFiles = [k \in Keys |-> <<>>]
  /\ otherDriveTasksFiles = <<>>
  /\ driveLog = [k \in Keys |-> NoRequests]
  /\ fileIdCache = [k \in Keys |-> 0]
  /\ pendingSaves = [k \in Keys |-> 0]
  /\ saveCalls = [c \in Slots(lim) |-> IdleCall]
  /\ tasksCalls = [c \in Slots(lim) |-> IdleTasksCall]
  /\ nEdits = 0
  /\ nSyncs = 0
  /\ nFails = 0
  /\ CacheInSync

\* ------------------------------------------- App: journal autosave
IsNoChangeNever(date, content) == FALSE
\* updateJournalEntry: "if (content === originalContent) return"
IsNoChange(date, content) == content = OriginalOrEmpty(date)

TimersAfterEditShared(date, content) ==
  [d \in Dates |-> IF d = date THEN content ELSE NoTimer]
\* updateJournalEntry: clearTimeout(journalSaveTimeoutRef.current[date]) and
\* "journalSaveTimeoutRef.current[date] = setTimeout(...)": the timer of the date.
TimersAfterEdit(date, content) ==
  [journalSaveTimeout EXCEPT ![date] = content]

\* updateJournalEntry(date, content)
UpdateJournalEntry(date, content) ==
  /\ nEdits < limits.edits
  /\ nEdits' = nEdits + 1
  /\ journalEntries' = [journalEntries EXCEPT ![date] = content]
  /\ IF IsNoChange(date, content)
       THEN UNCHANGED <<dirtyJournals, syncStatus, journalSaveTimeout>>
       ELSE /\ dirtyJournals' = SeqAdd(dirtyJournals, date)
            /\ syncStatus' = "syncing"
            /\ journalSaveTimeout' = TimersAfterEdit(date, content)
  /\ UNCHANGED <<authVars, loadVars, originalJournalContent, tasks, originalTasks,
                 tasksDirty, tasksSaveTimeout, notes, forceSyncRun, refreshEntryRun,
                 refreshTasksRun, refreshResult, driveVars, nSyncs, nFails, limits, noteVars, cacheVars>>

\* The debounce timer of a date fires: saveJournalToDrive(date, content) up to
\* its await of saveJournalEntry, which throws 'Not authenticated' at once
\* when there is no token.
JournalTimerFire(date) ==
  /\ journalSaveTimeout[date] # NoTimer
  /\ journalSaveTimeout' = [journalSaveTimeout EXCEPT ![date] = NoTimer]
  /\ IF Remote /\ GetAccessToken # Null
       THEN LET id   == FreeSlot(saveCalls)
                call == StartedCall(JournalKey(date), journalSaveTimeout[date],
                                    "debounce", pendingSaves, fileIdCache)
            IN /\ saveCalls' = WithCall(saveCalls, id, call)
               /\ pendingSaves' = WithPending(pendingSaves, id, call)
               /\ UNCHANGED syncStatus
       ELSE /\ UNCHANGED <<saveCalls, pendingSaves>>
            /\ syncStatus' = IF Remote THEN "error" ELSE syncStatus
  /\ UNCHANGED <<authVars, loadVars, journalEntries, originalJournalContent,
                 dirtyJournals, tasks, originalTasks, tasksDirty, tasksSaveTimeout,
                 notes, forceSyncRun, refreshEntryRun, refreshTasksRun,
                 refreshResult, fileIdCache, tasksCalls, driveFiles, otherDriveFiles, driveLog, driveTasksFiles, otherDriveTasksFiles,
                 nEdits, nSyncs, nFails, limits, noteVars, cacheVars>>

\* ------------------------------------------------------- App: notes
\* The note is put in memory and saveNoteToDrive(note) is called at once.
SaveNoteNow(id, content) ==
  /\ nEdits < limits.edits
  /\ nEdits' = nEdits + 1
  /\ notes' = [notes EXCEPT ![id] = content]
  /\ IF Remote /\ GetAccessToken # Null
       THEN LET slot == FreeSlot(saveCalls)
                call == StartedCall(NoteKey(id), content, "note", pendingSaves, fileIdCache)
            IN /\ saveCalls' = WithCall(saveCalls, slot, call)
               /\ pendingSaves' = WithPending(pendingSaves, slot, call)
       ELSE UNCHANGED <<saveCalls, pendingSaves>>
  /\ UNCHANGED <<authVars, loadVars, journalEntries, originalJournalContent,
                 dirtyJournals, journalSaveTimeout, tasks, originalTasks, tasksDirty,
                 tasksSaveTimeout, syncStatus, forceSyncRun, refreshEntryRun,
                 refreshTasksRun, refreshResult, fileIdCache, tasksCalls, driveFiles, otherDriveFiles, driveLog,
                 driveTasksFiles, otherDriveTasksFiles, nSyncs, nFails, limits, noteVars, cacheVars>>

\* addNote(note), for a note id not yet in the list
AddNote(id, content) ==
  /\ notes[id] = Undefined
  /\ SaveNoteNow(id, content)

\* updateNote(id, updates), for a note of the list
UpdateNote(id, content) ==
  /\ notes[id] # Undefined
  /\ SaveNoteNow(id, content)

\* ------------------------------- useGoogleDrive: the remote requests
StatusAfterRejectSilent(kinds) == syncStatus
\* A save that rejects, by whom awaits it: saveJournalToDrive and forceSync
\* catch and setSyncStatus('error'); addNote/updateNote only log.
StatusAfterReject(kinds) ==
  IF kinds \cap {"debounce", "force"} # {} THEN "error" ELSE syncStatus
\* forceSync is over (it returned or its catch ran) when the call it awaits is one of these
ForceEndedBy(kinds) ==
  IF "force" \in kinds THEN IdleForce ELSE forceSyncRun

\* The content slot of a file that was deleted: its id is not given again.
Deleted == "deleted"

\* findFile: "data.files?.[0] || null", the first file of the name that exists
\* (its index, 0 for none).
FirstFile(files) ==
  IF \A i \in DOMAIN files : files[i] = Deleted THEN 0
  ELSE CHOOSE i \in DOMAIN files :
         files[i] # Deleted /\ \A j \in DOMAIN files : j < i => files[j] = Deleted

\* updateFile with the id of a file that was deleted meanwhile: the response
\* is not ok.
Gone(call) ==
  /\ call.fileId # 0
  /\ OwnerOf(call.fileId) = call.user
  /\ StoreOf(call.user)[call.key][IndexOf(call.fileId)] = Deleted

\* await findFile(token, fileName, folderId) of saveJournalEntry / saveNote
\* settles; on a result the call goes on to dispatch its write and to register
\* its promise in pendingSaves.
FindFileDone(id) ==
  /\ saveCalls[id].pc = "findFile"
  /\ \E ok \in BOOLEAN :
       /\ MayAnswer(ok)
       /\ nFails' = IF ok THEN nFails ELSE nFails + 1
       /\ LET call  == saveCalls[id]
              found == FileId(call.user, FirstFile(StoreOf(call.user)[call.key]))
          IN IF ok
               THEN /\ fileIdCache' = IF found # 0
                                        THEN [fileIdCache EXCEPT ![call.key] = found]
                                        ELSE fileIdCache
                    /\ saveCalls' = [saveCalls EXCEPT ![id].pc = "write",
                                                      ![id].fileId = found]
                    /\ pendingSaves' = [pendingSaves EXCEPT ![call.key] = id]
                    /\ UNCHANGED <<syncStatus, forceSyncRun>>
               ELSE /\ saveCalls' = [saveCalls EXCEPT ![id] = IdleCall]
                    /\ syncStatus' = StatusAfterReject({call.kind})
                    /\ forceSyncRun' = ForceEndedBy({call.kind})
                    /\ UNCHANGED <<fileIdCache, pendingSaves>>
  /\ UNCHANGED <<authVars, loadVars, journalEntries, originalJournalContent,
                 dirtyJournals, journalSaveTimeout, tasks, originalTasks, tasksDirty,
                 tasksSaveTimeout, notes, refreshEntryRun, refreshTasksRun,
                 refreshResult, tasksCalls, driveFiles, otherDriveFiles, driveLog, driveTasksFiles, otherDriveTasksFiles, nEdits, nSyncs, limits, noteVars, cacheVars>>

FilesAfterWriteAlwaysCreate(call) ==
  [StoreOf(call.user) EXCEPT ![call.key] = Append(@, call.content)]
\* The store of the call's account after the write of a call: createFile adds a
\* file of that name, updateFile overwrites the content of the file with that id.
FilesAfterWrite(call) ==
  IF call.fileId = 0
    THEN [StoreOf(call.user) EXCEPT ![call.key] = Append(@, call.content)]
    ELSE [StoreOf(call.user) EXCEPT ![call.key][IndexOf(call.fileId)] = call.content]

PendingAfterWriteKeptOnError(key, ok) ==
  IF ok THEN [pendingSaves EXCEPT ![key] = 0] ELSE pendingSaves
\* "finally { delete pendingSaves.current[cacheKey] }": whatever the outcome of
\* the write, the entry of the key is removed.
PendingAfterWrite(key, ok) == [pendingSaves EXCEPT ![key] = 0]

\* The history of a key with the request of a call settled: how many createFile
\* and updateFile requests were made, and the content of the last save that
\* completed.
LogAfterWrite(call, ok) ==
  [driveLog EXCEPT ![call.key] =
     [creates |-> @.creates + (IF call.fileId = 0 THEN 1 ELSE 0),
      updates |-> @.updates + (IF call.fileId = 0 THEN 0 ELSE 1),
      last    |-> IF ok THEN call.content ELSE @.last]]

\* forceSync after "await saveJournalEntry(date, entry.content)": the dates
\* this call has written so far, in the order of the loop.
RunAfterWrite(call) ==
  [forceSyncRun EXCEPT !.written = Append(@, call.key[2])]

\* The write (updateFile or createFile) of a saveJournalEntry / saveNote call
\* settles: createFile's id is cached, the finally block deletes
\* pendingSaves[cacheKey], the calls that await this promise resume (in the
\* order they began to wait) and whoever awaits the call goes on.
WriteDone(id) ==
  /\ saveCalls[id].pc = "write"
  /\ \E ok \in BOOLEAN :
       /\ IF Foreign(saveCalls[id]) \/ Gone(saveCalls[id]) THEN ~ok ELSE MayAnswer(ok)
       /\ nFails' = IF ok \/ Foreign(saveCalls[id]) \/ Gone(saveCalls[id])
                      THEN nFails ELSE nFails + 1
       /\ LET call   == saveCalls[id]
              key    == call.key
              files1 == IF ok THEN FilesAfterWrite(call) ELSE StoreOf(call.user)
              cache1 == IF ok /\ call.fileId = 0
                          THEN [fileIdCache EXCEPT
                                  ![key] = FileId(call.user, Len(files1[key]))]
                          ELSE fileIdCache
              pend1  == PendingAfterWrite(key, ok)
              ws     == call.waiters
              cs1    == [c \in DOMAIN saveCalls |->
                           IF c = id THEN IdleCall
                           ELSE IF c \in Range(ws)
                             THEN IF ok THEN [ResumedCall(saveCalls[c].key,
                                                          saveCalls[c].content,
                                                          saveCalls[c].kind, cache1)
                                                EXCEPT !.user = saveCalls[c].user]
                                        ELSE IdleCall
                             ELSE saveCalls[c]]
              pend2  == IF ok /\ ws # <<>> /\ cache1[key] # 0
                          THEN [pend1 EXCEPT ![key] = ws[Len(ws)]]
                          ELSE pend1
              failed == IF ok THEN {} ELSE {call.kind} \cup {saveCalls[w].kind : w \in Range(ws)}
              adv    == AdvanceForce(RunAfterWrite(call), cs1, pend2, cache1, tasksCalls)
          IN /\ driveFiles' = IF call.user = userEmail THEN files1 ELSE driveFiles
             /\ otherDriveFiles' = IF call.user = userEmail THEN otherDriveFiles ELSE files1
             /\ driveLog' = LogAfterWrite(call, ok)
             /\ fileIdCache' = cache1
             /\ IF ok /\ call.kind = "force"
                  THEN \* forceSync: originalJournalContentRef.current[date] = entry.content
                       /\ originalJournalContent' =
                            [originalJournalContent EXCEPT ![key[2]] = call.content]
                       /\ saveCalls' = adv.calls
                       /\ pendingSaves' = adv.pending
                       /\ tasksCalls' = adv.tcalls
                       /\ forceSyncRun' = adv.run
                       /\ dirtyJournals' = IF adv.cleared THEN <<>> ELSE dirtyJournals
                       /\ syncStatus' = IF adv.done THEN "synced" ELSE syncStatus
                  ELSE /\ saveCalls' = cs1
                       /\ pendingSaves' = pend2
                       /\ UNCHANGED tasksCalls
                       /\ IF ok /\ call.kind = "debounce"
                            THEN \* saveJournalToDrive after its await
                                 /\ originalJournalContent' =
                                      [originalJournalContent EXCEPT ![key[2]] = call.content]
                                 /\ dirtyJournals' = Without(dirtyJournals, key[2])
                                 /\ syncStatus' = "synced"
                                 /\ UNCHANGED forceSyncRun
                            ELSE /\ syncStatus' = StatusAfterReject(failed)
                                 /\ forceSyncRun' = ForceEndedBy(failed)
                                 /\ UNCHANGED <<originalJournalContent, dirtyJournals>>
  /\ UNCHANGED <<authVars, loadVars, journalEntries, journalSaveTimeout, tasks,
                 originalTasks, tasksDirty, tasksSaveTimeout, notes, refreshEntryRun,
                 refreshTasksRun, refreshResult, driveTasksFiles, otherDriveTasksFiles, nEdits, nSyncs, limits, noteVars, cacheVars>>

\* ------------------------------------------------- App: deleteNote
\* deleteNote(id): the note leaves the list and deleteNoteFromDrive(id) runs up
\* to its await findFile; it does not look at pendingSaves.
DeleteNote(id) ==
  /\ notes[id] # Undefined
  /\ nEdits < limits.edits
  /\ nEdits' = nEdits + 1
  /\ notes' = [notes EXCEPT ![id] = Undefined]
  /\ IF Remote /\ GetAccessToken # Null
       THEN saveCalls' = [saveCalls EXCEPT ![FreeSlot(saveCalls)] =
                            [IdleCall EXCEPT !.pc = "deleteFind", !.key = NoteKey(id),
                                             !.kind = "delete", !.user = userEmail]]
       ELSE UNCHANGED saveCalls
  /\ UNCHANGED <<authVars, loadVars, journalEntries, originalJournalContent,
                 dirtyJournals, journalSaveTimeout, tasks, originalTasks, tasksDirty,
                 tasksSaveTimeout, syncStatus, forceSyncRun, refreshEntryRun,
                 refreshTasksRun, refreshResult, fileIdCache, pendingSaves, tasksCalls,
                 driveFiles, otherDriveFiles, driveLog, driveTasksFiles,
                 otherDriveTasksFiles, nSyncs, nFails, limits, noteVars, cacheVars>>

\* await findFile of deleteNoteFromDrive settles: with a file the DELETE request
\* is dispatched, with none the call returns, on an error it throws (deleteNote
\* logs it).
DeleteFindFileDone(id) ==
  /\ saveCalls[id].pc = "deleteFind"
  /\ \E ok \in BOOLEAN :
       /\ MayAnswer(ok)
       /\ nFails' = IF ok THEN nFails ELSE nFails + 1
       /\ LET call  == saveCalls[id]
              found == FileId(call.user, FirstFile(StoreOf(call.user)[call.key]))
          IN saveCalls' = IF ok /\ found # 0
                            THEN [saveCalls EXCEPT ![id].pc = "delete", ![id].fileId = found]
                            ELSE [saveCalls EXCEPT ![id] = IdleCall]
  /\ UNCHANGED <<authVars, loadVars, journalEntries, originalJournalContent,
                 dirtyJournals, journalSaveTimeout, tasks, originalTasks, tasksDirty,
                 tasksSaveTimeout, notes, syncStatus, forceSyncRun, refreshEntryRun,
                 refreshTasksRun, refreshResult, fileIdCache, pendingSaves, tasksCalls,
                 driveFiles, otherDriveFiles, driveLog, driveTasksFiles,
                 otherDriveTasksFiles, nEdits, nSyncs, limits, noteVars, cacheVars>>

\* The store of the call's account after its DELETE request was served.
FilesAfterDelete(call) ==
  [StoreOf(call.user) EXCEPT ![call.key][IndexOf(call.fileId)] = Deleted]

\* The DELETE request of deleteNoteFromDrive is answered (the response is not
\* looked at): "delete fileIdCache.current[cacheKey]".
DeleteDone(id) ==
  /\ saveCalls[id].pc = "delete"
  /\ \E ok \in BOOLEAN :
       /\ MayAnswer(ok)
       /\ nFails' = IF ok THEN nFails ELSE nFails + 1
       /\ LET call   == saveCalls[id]
              files1 == IF ok THEN FilesAfterDelete(call) ELSE StoreOf(call.user)
          IN /\ driveFiles' = IF call.user = userEmail THEN files1 ELSE driveFiles
             /\ otherDriveFiles' = IF call.user = userEmail THEN otherDriveFiles ELSE files1
             /\ fileIdCache' = [fileIdCache EXCEPT ![call.key] = 0]
             /\ saveCalls' = [saveCalls EXCEPT ![id] = IdleCall]
  /\ UNCHANGED <<authVars, loadVars, journalEntries, originalJournalContent,
                 dirtyJournals, journalSaveTimeout, tasks, originalTasks, tasksDirty,
                 tasksSaveTimeout, notes, syncStatus, forceSyncRun, refreshEntryRun,
                 refreshTasksRun, refreshResult, pendingSaves, tasksCalls, driveLog,
                 driveTasksFiles, otherDriveTasksFiles, nEdits, nSyncs, limits,
                 noteVars, cacheVars>>

\* --------------------------------------------- App: task list autosave
\* syncTasksToDriver: "if (newTasksJson === originalTasksRef.current) return"
IsNoTasksChange(newTasks) == Stringify(newTasks) = originalTasks

\* syncTasksToDriver(newTasks), called by every task mutation with the new list
TasksAfterMutation(newTasks) ==
  /\ nEdits < limits.edits
  /\ nEdits' = nEdits + 1
  /\ tasks' = newTasks
  /\ IF IsNoTasksChange(newTasks)
       THEN UNCHANGED <<tasksDirty, syncStatus, tasksSaveTimeout>>
       ELSE /\ tasksDirty' = TRUE
            /\ syncStatus' = "syncing"
            /\ tasksSaveTimeout' = [pending |-> TRUE, tasks |-> newTasks]
  /\ UNCHANGED <<authVars, loadVars, journalEntries, originalJournalContent,
                 dirtyJournals, journalSaveTimeout, originalTasks, notes, forceSyncRun,
                 refreshEntryRun, refreshTasksRun, refreshResult, driveVars, nSyncs,
                 nFails, limits, noteVars, cacheVars>>

\* prev.map(task => task.id === id ? { ...task, completed: c } : task)
SetCompleted(ts, id, c) ==
  [i \in DOMAIN ts |-> IF ts[i].id = id THEN [ts[i] EXCEPT !.completed = c] ELSE ts[i]]

\* The ids of the tasks of the list; the pages call updateTask, deleteTask and
\* toggleTask with the id of a task they show.
IdsOf(ts) == {ts[i].id : i \in DOMAIN ts}

\* The argument of addTask carries no id property.
NoId == 0

\* The readings of Date.now() in the session: later than the ids of the tasks
\* that were loaded, and the same reading may be taken twice.
Clock == {MaxTasks + 1, MaxTasks + 2}

\* { id: Date.now().toString(), ...task, completed: false, ... }: the spread
\* comes after the id, so an id property of the argument replaces the reading.
NewTask(now, given) ==
  [id |-> IF given = NoId THEN now ELSE given, completed |-> FALSE]

\* addTask(task) with the clock at now: the new task is put first
AddTaskAt(now, given) == TasksAfterMutation(<<NewTask(now, given)>> \o tasks)

\* addTask(task) as the Tasks page calls it (no id property), after the clock
\* has advanced: the id is one that no task of the list has.
AddTask(id) ==
  /\ id \notin IdsOf(tasks)
  /\ \A other \in TaskIds \ IdsOf(tasks) : id <= other
  /\ AddTaskAt(id, NoId)

\* updateTask(id, updates)
UpdateTask(id, completed) ==
  /\ id \in IdsOf(tasks)
  /\ TasksAfterMutation(SetCompleted(tasks, id, completed))

\* deleteTask(id)
DeleteTask(id) ==
  /\ id \in IdsOf(tasks)
  /\ TasksAfterMutation(SelectSeq(tasks, LAMBDA t : t.id # id))

\* toggleTask(id)
ToggleTask(id) ==
  /\ id \in IdsOf(tasks)
  /\ TasksAfterMutation([i \in DOMAIN tasks |->
                           IF tasks[i].id = id
                             THEN [tasks[i] EXCEPT !.completed = ~@] ELSE tasks[i]])

\* The task-list debounce timer fires: saveTasksToDrive(newTasks) up to the
\* await findFile of saveTasks.
TasksTimerFire ==
  /\ tasksSaveTimeout.pending
  /\ tasksSaveTimeout' = NoTasksTimer
  /\ IF Remote /\ GetAccessToken # Null
       THEN /\ tasksCalls' = [tasksCalls EXCEPT ![FreeSlot(tasksCalls)] =
                                StartedTasksCall(tasksSaveTimeout.tasks, "debounce")]
            /\ UNCHANGED syncStatus
       ELSE /\ UNCHANGED tasksCalls
            /\ syncStatus' = IF Remote THEN "error" ELSE syncStatus
  /\ UNCHANGED <<authVars, loadVars, journalEntries, originalJournalContent,
                 dirtyJournals, journalSaveTimeout, tasks, originalTasks, tasksDirty,
                 notes, forceSyncRun, refreshEntryRun, refreshTasksRun,
                 refreshResult, fileIdCache, pendingSaves, saveCalls, driveFiles, otherDriveFiles, driveLog,
                 driveTasksFiles, otherDriveTasksFiles, nEdits, nSyncs, nFails, limits, noteVars, cacheVars>>

\* await findFile(token, TASKS_FILE, folderId) of saveTasks settles; on a
\* result the write (updateFile of the file found, else createFile) is dispatched.
TasksFindFileDone(i) ==
  /\ tasksCalls[i].pc = "findFile"
  /\ \E ok \in BOOLEAN :
       /\ MayAnswer(ok)
       /\ nFails' = IF ok THEN nFails ELSE nFails + 1
       /\ IF ok
            THEN /\ tasksCalls' = [tasksCalls EXCEPT
                                     ![i].pc = "write",
                                     ![i].fileId = IF driveTasksFiles # <<>> THEN 1 ELSE 0]
                 /\ UNCHANGED <<syncStatus, forceSyncRun>>
            ELSE /\ tasksCalls' = [tasksCalls EXCEPT ![i] = IdleTasksCall]
                 /\ syncStatus' = "error"
                 /\ forceSyncRun' = ForceEndedBy({tasksCalls[i].kind})
  /\ UNCHANGED <<authVars, loadVars, journalEntries, originalJournalContent,
                 dirtyJournals, journalSaveTimeout, tasks, originalTasks, tasksDirty,
                 tasksSaveTimeout, notes, refreshEntryRun, refreshTasksRun, refreshResult,
                 fileIdCache, pendingSaves, saveCalls, driveFiles, otherDriveFiles, driveLog, driveTasksFiles, otherDriveTasksFiles,
                 nEdits, nSyncs, limits, noteVars, cacheVars>>

\* The write of a saveTasks call settles and saveTasksToDrive (or forceSync)
\* goes on after its await.
TasksWriteDone(i) ==
  /\ tasksCalls[i].pc = "write"
  /\ \E ok \in BOOLEAN :
       /\ MayAnswer(ok)
       /\ nFails' = IF ok THEN nFails ELSE nFails + 1
       /\ LET call == tasksCalls[i] IN
          /\ tasksCalls' = [tasksCalls EXCEPT ![i] = IdleTasksCall]
          /\ IF ok
               THEN /\ driveTasksFiles' =
                         IF call.fileId = 0 THEN Append(driveTasksFiles, call.tasks)
                         ELSE [driveTasksFiles EXCEPT ![call.fileId] = call.tasks]
                    /\ originalTasks' = Stringify(call.tasks)
                    /\ tasksDirty' = FALSE
                    /\ syncStatus' = "synced"
                    /\ forceSyncRun' = ForceEndedBy({call.kind})
                    /\ UNCHANGED otherDriveTasksFiles
               ELSE /\ syncStatus' = "error"
                    /\ forceSyncRun' = ForceEndedBy({call.kind})
                    /\ UNCHANGED <<driveTasksFiles, otherDriveTasksFiles, originalTasks, tasksDirty>>
  /\ UNCHANGED <<authVars, loadVars, journalEntries, originalJournalContent,
                 dirtyJournals, journalSaveTimeout, tasks, tasksSaveTimeout, notes,
                 refreshEntryRun, refreshTasksRun, refreshResult, fileIdCache,
                 pendingSaves, saveCalls, driveFiles, otherDriveFiles, driveLog, nEdits, nSyncs, limits, noteVars, cacheVars>>

\* ----------------------------------------------------- App: forceSync
\* "Object.values(journalSaveTimeoutRef.current).forEach(clearTimeout);
\* journalSaveTimeoutRef.current = {}": no journal timer is left pending.
JournalTimersKept == journalSaveTimeout
JournalTimersCleared == [d \in Dates |-> NoTimer]

\* forceSync() from its call to its first await (or to its end).
ForceSync ==
  /\ forceSyncRun.pc = "idle"
  /\ nSyncs < limits.syncs
  /\ nSyncs' = nSyncs + 1
  /\ IF ~Remote
       THEN /\ syncStatus' = "synced"
            /\ UNCHANGED <<journalSaveTimeout, tasksSaveTimeout, dirtyJournals,
                           forceSyncRun, saveCalls, pendingSaves, tasksCalls>>
       ELSE LET run == [IdleForce EXCEPT !.dates = dirtyJournals,
                                         !.startDates = dirtyJournals,
                                         !.entries = journalEntries,
                                         !.tasksDirty = tasksDirty,
                                         !.tasks = tasks]
                adv == AdvanceForce(run, saveCalls, pendingSaves, fileIdCache, tasksCalls)
            IN /\ journalSaveTimeout' = JournalTimersCleared
               /\ tasksSaveTimeout' = NoTasksTimer
               /\ dirtyJournals' = IF adv.cleared THEN <<>> ELSE dirtyJournals
               /\ IF adv.done \/ GetAccessToken # Null
                    THEN /\ saveCalls' = adv.calls
                         /\ pendingSaves' = adv.pending
                         /\ tasksCalls' = adv.tcalls
                         /\ forceSyncRun' = adv.run
                         /\ syncStatus' = IF adv.done THEN "synced" ELSE "syncing"
                    ELSE \* the first save throws 'Not authenticated': the catch
                         /\ syncStatus' = "error"
                         /\ UNCHANGED <<saveCalls, pendingSaves, tasksCalls, forceSyncRun>>
  /\ UNCHANGED <<authVars, loadVars, journalEntries, originalJournalContent, tasks,
                 originalTasks, tasksDirty, notes, refreshEntryRun, refreshTasksRun,
                 refreshResult, fileIdCache, driveFiles, otherDriveFiles, driveLog, driveTasksFiles, otherDriveTasksFiles, nEdits, nFails, limits, noteVars, cacheVars>>

\* ------------------------------------------------------- App: refresh
\* journalEntries[date]?.content || null
ContentOrNull(date) ==
  IF journalEntries[date] \in {Undefined, ""} THEN Null ELSE journalEntries[date]

\* refreshSingleEntry(date) from its call to its first await: the await
\* findFile of loadJournalEntry (or to its return).
RefreshSingleEntry(date) ==
  /\ refreshEntryRun[date] = "idle"
  /\ nSyncs < limits.syncs
  /\ nSyncs' = nSyncs + 1
  /\ IF ~Remote
       THEN /\ refreshResult' = EntryResult(date, Null)
            /\ UNCHANGED <<syncStatus, syncError, refreshEntryRun>>
       ELSE IF date \in Range(dirtyJournals)
         THEN /\ refreshResult' = EntryResult(date, ContentOrNull(date))
              /\ UNCHANGED <<syncStatus, syncError, refreshEntryRun>>
         ELSE IF GetAccessToken = Null
           THEN \* loadJournalEntry throws 'Not authenticated': the catch
                /\ syncStatus' = "error"
                /\ syncError' = NotAuthenticated
                /\ refreshResult' = EntryResult(date, Null)
                /\ UNCHANGED refreshEntryRun
           ELSE /\ syncStatus' = "syncing"
                /\ refreshEntryRun' = [refreshEntryRun EXCEPT ![date] = "findFile"]
                /\ UNCHANGED <<refreshResult, syncError>>
  /\ UNCHANGED <<authVars, loadRest, journalEntries, originalJournalContent,
                 dirtyJournals, journalSaveTimeout, tasks, originalTasks, tasksDirty,
                 tasksSaveTimeout, notes, forceSyncRun, refreshTasksRun, driveVars,
                 nEdits, nFails, limits, noteVars, cacheVars>>

\* await findFile of loadJournalEntry settles: no file makes the refresh return
\* null, a file is downloaded next, an error is caught by refreshSingleEntry.
RefreshFindFileDone(date) ==
  /\ refreshEntryRun[date] = "findFile"
  /\ \E ok \in BOOLEAN :
       /\ MayAnswer(ok)
       /\ nFails' = IF ok THEN nFails ELSE nFails + 1
       /\ syncError' = IF ok THEN syncError ELSE RequestFailed   \* setSyncError(error.message)
       /\ IF ok /\ driveFiles[JournalKey(date)] # <<>>
            THEN /\ refreshEntryRun' = [refreshEntryRun EXCEPT ![date] = "download"]
                 /\ UNCHANGED <<syncStatus, refreshResult>>
            ELSE /\ refreshEntryRun' = [refreshEntryRun EXCEPT ![date] = "idle"]
                 /\ syncStatus' = IF ok THEN "synced" ELSE "error"
                 /\ refreshResult' = EntryResult(date, Null)
  /\ UNCHANGED <<authVars, loadRest, journalEntries, originalJournalContent,
                 dirtyJournals, journalSaveTimeout, tasks, originalTasks, tasksDirty,
                 tasksSaveTimeout, notes, forceSyncRun, refreshTasksRun, driveVars,
                 nEdits, nSyncs, limits, noteVars, cacheVars>>

OriginalAfterRefreshKept(date, content) == originalJournalContent
\* refreshSingleEntry: "originalJournalContentRef.current[date] = content"
OriginalAfterRefresh(date, content) ==
  [originalJournalContent EXCEPT ![date] = content]

\* await downloadFile of loadJournalEntry settles and refreshSingleEntry goes on:
\* the entry and its original snapshot become the downloaded content.
RefreshDownloadDone(date) ==
  /\ refreshEntryRun[date] = "download"
  /\ refreshEntryRun' = [refreshEntryRun EXCEPT ![date] = "idle"]
  /\ \E ok \in BOOLEAN :
       /\ MayAnswer(ok)
       /\ nFails' = IF ok THEN nFails ELSE nFails + 1
       /\ syncError' = IF ok THEN syncError ELSE RequestFailed   \* setSyncError(error.message)
       /\ IF ok
            THEN LET content == driveFiles[JournalKey(date)][1] IN
                 /\ journalEntries' = [journalEntries EXCEPT ![date] = content]
                 /\ originalJournalContent' = OriginalAfterRefresh(date, content)
                 /\ syncStatus' = "synced"
                 /\ refreshResult' = EntryResult(date, content)
            ELSE /\ syncStatus' = "error"
                 /\ refreshResult' = EntryResult(date, Null)
                 /\ UNCHANGED <<journalEntries, originalJournalContent>>
  /\ UNCHANGED <<authVars, loadRest, dirtyJournals, journalSaveTimeout, tasks,
                 originalTasks, tasksDirty, tasksSaveTimeout, notes, forceSyncRun,
                 refreshTasksRun, driveVars, nEdits, nSyncs, limits, noteVars, cacheVars>>

\* refreshTasks() from its call to the await findFile of loadTasks (or to its return).
RefreshTasks ==
  /\ refreshTasksRun = "idle"
  /\ nSyncs < limits.syncs
  /\ nSyncs' = nSyncs + 1
  /\ IF ~Remote
       THEN /\ refreshResult' = TasksResult(TRUE, <<>>)
            /\ UNCHANGED <<syncStatus, syncError, refreshTasksRun>>
       ELSE IF tasksDirty
         THEN /\ refreshResult' = TasksResult(FALSE, tasks)
              /\ UNCHANGED <<syncStatus, syncError, refreshTasksRun>>
         ELSE IF GetAccessToken = Null
           THEN \* loadTasks throws 'Not authenticated': the catch
                /\ syncStatus' = "error"
                /\ syncError' = NotAuthenticated
                /\ refreshResult' = TasksResult(TRUE, <<>>)
                /\ UNCHANGED refreshTasksRun
           ELSE /\ syncStatus' = "syncing"
                /\ refreshTasksRun' = "findFile"
                /\ UNCHANGED <<refreshResult, syncError>>
  /\ UNCHANGED <<authVars, loadRest, journalEntries, originalJournalContent,
                 dirtyJournals, journalSaveTimeout, tasks, originalTasks, tasksDirty,
                 tasksSaveTimeout, notes, forceSyncRun, refreshEntryRun, driveVars,
                 nEdits, nFails, limits, noteVars, cacheVars>>

\* await findFile of loadTasks settles: no file makes loadTasks return null and
\* refreshTasks return [].
RefreshTasksFindFileDone ==
  /\ refreshTasksRun = "findFile"
  /\ \E ok \in BOOLEAN :
       /\ MayAnswer(ok)
       /\ nFails' = IF ok THEN nFails ELSE nFails + 1
       /\ syncError' = IF ok THEN syncError ELSE RequestFailed   \* setSyncError(error.message)
       /\ IF ok /\ driveTasksFiles # <<>>
            THEN /\ refreshTasksRun' = "download"
                 /\ UNCHANGED <<syncStatus, refreshResult>>
            ELSE /\ refreshTasksRun' = "idle"
                 /\ syncStatus' = IF ok THEN "synced" ELSE "error"
                 /\ refreshResult' = TasksResult(~ok, <<>>)
  /\ UNCHANGED <<authVars, loadRest, journalEntries, originalJournalContent,
                 dirtyJournals, journalSaveTimeout, tasks, originalTasks, tasksDirty,
                 tasksSaveTimeout, notes, forceSyncRun, refreshEntryRun, driveVars,
                 nEdits, nSyncs, limits, noteVars, cacheVars>>

\* await downloadFile of loadTasks settles and refreshTasks goes on: the task
\* list and its original snapshot become the downloaded list.
RefreshTasksDownloadDone ==
  /\ refreshTasksRun = "download"
  /\ refreshTasksRun' = "idle"
  /\ \E ok \in BOOLEAN :
       /\ MayAnswer(ok)
       /\ nFails' = IF ok THEN nFails ELSE nFails + 1
       /\ syncError' = IF ok THEN syncError ELSE RequestFailed   \* setSyncError(error.message)
       /\ IF ok
            THEN LET loaded == driveTasksFiles[1] IN
                 /\ tasks' = loaded
                 /\ originalTasks' = Stringify(loaded)
                 /\ syncStatus' = "synced"
                 /\ refreshResult' = TasksResult(FALSE, loaded)
            ELSE /\ syncStatus' = "error"
                 /\ refreshResult' = TasksResult(TRUE, <<>>)
                 /\ UNCHANGED <<tasks, originalTasks>>
  /\ UNCHANGED <<authVars, loadRest, journalEntries, originalJournalContent,
                 dirtyJournals, journalSaveTimeout, tasksDirty, tasksSaveTimeout, notes,
                 forceSyncRun, refreshEntryRun, driveVars, nEdits, nSyncs, limits, noteVars, cacheVars>>

\* ------------------------------------------- App: loadDataFromDrive
\* The variables no step of loadDataFromDrive touches.
loadFrame == <<authVars, dirtyJournals, journalSaveTimeout, tasksDirty,
               tasksSaveTimeout, forceSyncRun, refreshEntryRun, refreshTasksRun,
               refreshResult, driveVars, nEdits, nSyncs, limits, noteVars, cacheVars>>

FreeRun == CHOOSE r \in LoadRuns :
             loadRuns[r].pc = "idle" /\ \A q \in LoadRuns : q < r => loadRuns[q].pc # "idle"

\* The effect "loadDataFromDrive()" runs after a render that changed one of its
\* dependencies: the call returns at once unless the user is signed in, not a
\* demo identity and dataLoaded is false, else it sets 'syncing' and awaits
\* initializeFolders(), which throws at once without a token.
LoadDataFromDrive ==
  /\ effectPending
  /\ IF ~Remote \/ dataLoaded
       THEN /\ effectPending' = FALSE
            /\ UNCHANGED <<dataLoaded, syncError, syncStatus, loadRuns>>
       ELSE IF GetAccessToken = Null
         THEN /\ syncError' = NotAuthenticated
              /\ syncStatus' = "error"
              /\ dataLoaded' = TRUE
              /\ effectPending' = TRUE
              /\ UNCHANGED loadRuns
         ELSE /\ \E r \in LoadRuns : loadRuns[r].pc = "idle"
              /\ syncStatus' = "syncing"
              /\ loadRuns' = [loadRuns EXCEPT ![FreeRun].pc = "folders"]
              /\ effectPending' = FALSE
              /\ UNCHANGED <<dataLoaded, syncError>>
  /\ UNCHANGED <<folders, journalEntries, originalJournalContent, tasks, originalTasks,
                 notes, nFails, loadFrame>>

DataLoadedAfterCatchUnset == dataLoaded
\* "setDataLoaded(true)" of the catch block.
DataLoadedAfterCatch == TRUE

\* The catch block of loadDataFromDrive, whichever await threw.
LoadCaught(r) ==
  /\ syncError' = RequestFailed
  /\ syncStatus' = "error"
  /\ dataLoaded' = DataLoadedAfterCatch
  /\ effectPending' = (effectPending \/ dataLoaded' # dataLoaded)
  /\ loadRuns' = [loadRuns EXCEPT ![r] = IdleLoad]
  /\ UNCHANGED <<folders, journalEntries, originalJournalContent, tasks, originalTasks,
                 notes>>

\* A request of loadDataFromDrive is answered.
LoadAnswer(ok) ==
  /\ MayAnswer(ok)
  /\ nFails' = IF ok THEN nFails ELSE nFails + 1

\* after "await initializeFolders()": setFolders(folderIds) changed the
\* callbacks the effect depends on if the folders were not resolved before.
LoadAfterFolders(r) ==
  /\ folders' = TRUE
  /\ effectPending' = (effectPending \/ ~folders)
  /\ loadRuns' = [loadRuns EXCEPT ![r].pc = "list"]
  /\ UNCHANGED <<dataLoaded, syncError, syncStatus, journalEntries,
                 originalJournalContent, tasks, originalTasks, notes>>
\* The await settles: the call goes on, or its catch runs.
LoadFoldersDone(r) ==
  /\ loadRuns[r].pc = "folders"
  /\ \E ok \in BOOLEAN :
       LoadAnswer(ok) /\ IF ok THEN LoadAfterFolders(r) ELSE LoadCaught(r)
  /\ UNCHANGED loadFrame

\* The dates that have a file in the journal folder, in order.
ListedDates ==
  (IF driveFiles[JournalKey("d1")] # <<>> THEN <<"d1">> ELSE <<>>)
    \o (IF driveFiles[JournalKey("d2")] # <<>> THEN <<"d2">> ELSE <<>>)

\* after "await listJournalEntries()".
LoadAfterList(r) ==
  /\ loadRuns' = [loadRuns EXCEPT ![r].pc = IF ListedDates # <<>> THEN "entry" ELSE "tasks",
                                  ![r].dates = ListedDates]
  /\ UNCHANGED <<dataLoaded, syncError, syncStatus, folders, effectPending,
                 journalEntries, originalJournalContent, tasks, originalTasks, notes>>
\* The await settles: the call goes on, or its catch runs.
LoadListDone(r) ==
  /\ loadRuns[r].pc = "list"
  /\ \E ok \in BOOLEAN :
       LoadAnswer(ok) /\ IF ok THEN LoadAfterList(r) ELSE LoadCaught(r)
  /\ UNCHANGED loadFrame

\* after "await loadJournalEntry(date)": "if (content)" keeps a non-empty
\* content in journalData and in the original snapshot; after the last date
\* "setJournalEntries(journalData)" if anything was kept.
LoadAfterEntry(r) ==
  LET run     == loadRuns[r]
      date    == Head(run.dates)
      files   == driveFiles[JournalKey(date)]
      content == IF files = <<>> THEN Null ELSE files[1]
      kept    == content # Null /\ content # ""
      data    == IF kept THEN [run.data EXCEPT ![date] = content] ELSE run.data
      last    == Tail(run.dates) = <<>>
  IN /\ originalJournalContent' =
          IF kept THEN [originalJournalContent EXCEPT ![date] = content]
                  ELSE originalJournalContent
     /\ journalEntries' =
          IF last /\ \E d \in Dates : data[d] # Undefined THEN data ELSE journalEntries
     /\ loadRuns' = [loadRuns EXCEPT ![r].pc = IF last THEN "tasks" ELSE "entry",
                                     ![r].dates = Tail(run.dates),
                                     ![r].data = data]
     /\ UNCHANGED <<dataLoaded, syncError, syncStatus, folders, effectPending, tasks,
                    originalTasks, notes>>
\* The await settles: the call goes on, or its catch runs.
LoadEntryDone(r) ==
  /\ loadRuns[r].pc = "entry"
  /\ \E ok \in BOOLEAN :
       LoadAnswer(ok) /\ IF ok THEN LoadAfterEntry(r) ELSE LoadCaught(r)
  /\ UNCHANGED loadFrame

OriginalTasksNotSeeded == originalTasks
\* "originalTasksRef.current = JSON.stringify(tasksData.tasks)" when a task
\* file was downloaded.
OriginalTasksAfterLoad ==
  IF driveTasksFiles # <<>> THEN Stringify(driveTasksFiles[1]) ELSE originalTasks

\* after "await loadTasks()": "if (tasksData?.tasks)".
LoadAfterTasks(r) ==
  /\ tasks' = IF driveTasksFiles # <<>> THEN driveTasksFiles[1] ELSE tasks
  /\ originalTasks' = OriginalTasksAfterLoad
  /\ loadRuns' = [loadRuns EXCEPT ![r].pc = "notes"]
  /\ UNCHANGED <<dataLoaded, syncError, syncStatus, folders, effectPending,
                 journalEntries, originalJournalContent, notes>>
\* The await settles: the call goes on, or its catch runs.
LoadTasksDone(r) ==
  /\ loadRuns[r].pc = "tasks"
  /\ \E ok \in BOOLEAN :
       LoadAnswer(ok) /\ IF ok THEN LoadAfterTasks(r) ELSE LoadCaught(r)
  /\ UNCHANGED loadFrame

\* after "await listNotesFromDrive()": setNotes if any note was listed, then
\* "setDataLoaded(true); setSyncStatus('synced')".
LoadAfterNotes(r) ==
  LET listed == {n \in NoteIds : FirstFile(driveFiles[NoteKey(n)]) # 0} IN
  /\ notes' = IF listed # {}
                THEN [n \in NoteIds |->
                        IF n \in listed
                          THEN driveFiles[NoteKey(n)][FirstFile(driveFiles[NoteKey(n)])]
                          ELSE Undefined]
                ELSE notes
  /\ dataLoaded' = TRUE
  /\ syncStatus' = "synced"
  /\ effectPending' = (effectPending \/ ~dataLoaded)
  /\ loadRuns' = [loadRuns EXCEPT ![r] = IdleLoad]
  /\ UNCHANGED <<syncError, folders, journalEntries, originalJournalContent, tasks,
                 originalTasks>>
\* The await settles: the call goes on, or its catch runs.
LoadNotesDone(r) ==
  /\ loadRuns[r].pc = "notes"
  /\ \E ok \in BOOLEAN :
       LoadAnswer(ok) /\ IF ok THEN LoadAfterNotes(r) ELSE LoadCaught(r)
  /\ UNCHANGED loadFrame

\* ------------------------------------------------------ specification
JournalNext ==
  \/ \E d \in Dates, c \in Contents : UpdateJournalEntry(d, c)
  \/ \E d \in Dates : JournalTimerFire(d)
  \/ \E id \in DOMAIN saveCalls : FindFileDone(id)
  \/ \E id \in DOMAIN saveCalls : WriteDone(id)

NotesNext ==
  \/ \E n \in NoteIds, c \in Contents : AddNote(n, c)
  \/ \E n \in NoteIds, c \in Contents : UpdateNote(n, c)

TasksNext ==
  \/ \E t \in TaskIds : AddTask(t)
  \/ \E t \in TaskIds, b \in BOOLEAN : UpdateTask(t, b)
  \/ \E t \in TaskIds : DeleteTask(t)
  \/ \E t \in TaskIds : ToggleTask(t)
  \/ TasksTimerFire
  \/ \E i \in DOMAIN tasksCalls : TasksFindFileDone(i)
  \/ \E i \in DOMAIN tasksCalls : TasksWriteDone(i)

SyncNext ==
  \/ ForceSync
  \/ \E d \in Dates : RefreshSingleEntry(d)
  \/ \E d \in Dates : RefreshFindFileDone(d)
  \/ \E d \in Dates : RefreshDownloadDone(d)
  \/ RefreshTasks
  \/ RefreshTasksFindFileDone
  \/ RefreshTasksDownloadDone

\* The engine of journal entries and task list: autosave, forceSync, refresh.
Next == JournalNext \/ TasksNext \/ SyncNext
Init == InitWith([edits |-> RaceEdits, syncs |-> RaceSyncs, fails |-> RaceFails])
Spec == Init /\ [][Next]_vars

\* The edits, their debounced saves and forceSync.
ForceNext == JournalNext \/ TasksNext \/ ForceSync
ForceLimits == [edits |-> ForceEdits, syncs |-> ForceSyncs, fails |-> ForceFails]
InitForce == InitWith(ForceLimits)
SpecForce == InitForce /\ [][ForceNext]_vars

\* The edits of journal entries and task list and their debounced saves.
AutosaveNext == JournalNext \/ TasksNext
InitAutosave == InitWith([edits |-> AutosaveEdits, syncs |-> 0, fails |-> AutosaveFails])
SpecAutosave == InitAutosave /\ [][AutosaveNext]_vars

\* What a user who is not signed in (or a demo identity) can do: edit, let the
\* timers fire, forceSync and refresh; no remote request is ever in flight.
DemoNext ==
  \/ \E d \in Dates, c \in Contents : UpdateJournalEntry(d, c)
  \/ \E d \in Dates : JournalTimerFire(d)
  \/ \E t \in TaskIds : AddTask(t)
  \/ \E t \in TaskIds, b \in BOOLEAN : UpdateTask(t, b)
  \/ \E t \in TaskIds : DeleteTask(t)
  \/ \E t \in TaskIds : ToggleTask(t)
  \/ TasksTimerFire
  \/ \E n \in NoteIds, c \in Contents : UpdateNote(n, c)
  \/ ForceSync
  \/ \E d \in Dates : RefreshSingleEntry(d)
  \/ RefreshTasks
InitDemo == InitDemoData([edits |-> DemoEdits, syncs |-> DemoSyncs, fails |-> 0])
SpecDemo == InitDemo /\ [][DemoNext]_vars

InitToken == InitWithToken([edits |-> TokenEdits, syncs |-> 0, fails |-> TokenFails])
SpecToken == InitToken /\ [][AutosaveNext]_vars

\* ------------------------------------------- change of the signed-in user
\* The effect of useGoogleDrive on a change of user?.email: "setFolders({root:
\* null, ...}); fileIdCache.current = {}". pendingSaves, the timers, the calls
\* in flight and the state of App are left as they are.
CacheAfterUserChange == [k \in Keys |-> 0]

\* signOut(): setUser(null), setAccessToken(null), the stored token removed.
\* From here on driveFiles is the store of the account that signs in next.
SignOut ==
  /\ isAuthenticated /\ ~isDemo
  /\ userEmail = "u1"
  /\ isAuthenticated' = FALSE
  /\ accessToken' = Null
  /\ savedToken' = FALSE
  /\ userEmail' = Null
  /\ fileIdCache' = CacheAfterUserChange
  /\ driveFiles' = otherDriveFiles
  /\ otherDriveFiles' = driveFiles
  /\ driveTasksFiles' = otherDriveTasksFiles
  /\ otherDriveTasksFiles' = driveTasksFiles
  /\ folders' = FALSE
  /\ UNCHANGED <<dataLoaded, syncError, effectPending, loadRuns>>
  /\ UNCHANGED <<isDemo, tokenExpired, journalEntries, originalJournalContent,
                 dirtyJournals, journalSaveTimeout, tasks, originalTasks, tasksDirty,
                 tasksSaveTimeout, notes, syncStatus, forceSyncRun, refreshEntryRun,
                 refreshTasksRun, refreshResult, pendingSaves, saveCalls, tasksCalls,
                 driveLog, nEdits, nSyncs, nFails, limits, noteVars, cacheVars>>

\* signIn() of another account: setAccessToken(token), the token stored with
\* its expiry, setUser(userData).
SignIn ==
  /\ ~isAuthenticated
  /\ userEmail = Null
  /\ isAuthenticated' = TRUE
  /\ accessToken' = Token
  /\ savedToken' = TRUE
  /\ tokenExpired' = FALSE
  /\ userEmail' = "u2"
  /\ fileIdCache' = CacheAfterUserChange
  /\ folders' = FALSE
  /\ UNCHANGED <<dataLoaded, syncError, effectPending, loadRuns>>
  /\ UNCHANGED <<isDemo, journalEntries, originalJournalContent,
                 dirtyJournals, journalSaveTimeout, tasks, originalTasks, tasksDirty,
                 tasksSaveTimeout, notes, syncStatus, forceSyncRun, refreshEntryRun,
                 refreshTasksRun, refreshResult, pendingSaves, saveCalls, tasksCalls,
                 driveFiles, driveTasksFiles, otherDriveFiles, otherDriveTasksFiles,
                 driveLog, nEdits, nSyncs, nFails, limits, noteVars, cacheVars>>

\* Journal autosave while the signed-in account changes from u1 to u2.
IdentityNext == JournalNext \/ SignOut \/ SignIn
InitIdentity == InitWith([edits |-> IdentityEdits, syncs |-> 0, fails |-> IdentityFails])
SpecIdentity == InitIdentity /\ [][IdentityNext]_vars

\* The account changes from u1 to u2 and u2 presses "sync now": the edits are
\* those u1 made, and the change and the forceSync happen within the debounce
\* second of the last edit (forceSync clears the timers that are pending).
HandoverNext ==
  \/ \E d \in Dates, c \in Contents : userEmail = "u1" /\ UpdateJournalEntry(d, c)
  \/ SignOut
  \/ SignIn
  \/ ForceSync
  \/ \E id \in DOMAIN saveCalls : FindFileDone(id)
  \/ \E id \in DOMAIN saveCalls : WriteDone(id)
InitHandover == InitWith([edits |-> HandoverEdits, syncs |-> HandoverSyncs, fails |-> 0])
SpecHandover == InitHandover /\ [][HandoverNext]_vars

\* Hydration at startup: the session is signed in, nothing is loaded yet.
HydrateNext ==
  \/ LoadDataFromDrive
  \/ \E r \in LoadRuns : LoadFoldersDone(r)
  \/ \E r \in LoadRuns : LoadListDone(r)
  \/ \E r \in LoadRuns : LoadEntryDone(r)
  \/ \E r \in LoadRuns : LoadTasksDone(r)
  \/ \E r \in LoadRuns : LoadNotesDone(r)
InitHydrateLimits(lim) ==
  /\ isAuthenticated = TRUE
  /\ isDemo = FALSE
  /\ savedToken = TRUE
  /\ userEmail = "u1"
  /\ \E state \in {"valid", "expired", "none"} :
       /\ tokenExpired = (state # "valid")
       /\ accessToken = IF state = "none" THEN Null ELSE Token
  /\ InitSession(lim, FALSE, "idle")
  /\ NoNoteText
  /\ dataLoaded = FALSE
  /\ syncError = Null
  /\ folders = FALSE
  /\ effectPending = TRUE
  /\ loadRuns = [r \in LoadRuns |-> IdleLoad]
InitHydrateSession(fails) == InitHydrateLimits([edits |-> 0, syncs |-> 0, fails |-> fails])
InitHydrate == InitHydrateSession(HydrateFails) /\ CacheInSync
SpecHydrate == InitHydrate /\ [][HydrateNext]_vars

\* Hydration at startup while the user already edits: the pages are shown and
\* take input before loadDataFromDrive is over. The edits are those made while
\* a run of loadDataFromDrive awaits a download.
Downloading == \E r \in LoadRuns : loadRuns[r].pc # "idle"
HydrateEditNext ==
  \/ HydrateNext
  \/ \E d \in Dates, c \in Contents : Downloading /\ UpdateJournalEntry(d, c)
  \/ \E d \in Dates : JournalTimerFire(d)
  \/ \E id \in DOMAIN saveCalls : FindFileDone(id)
  \/ \E id \in DOMAIN saveCalls : WriteDone(id)
  \/ \E t \in TaskIds : Downloading /\ AddTask(t)
  \/ \E t \in TaskIds : Downloading /\ ToggleTask(t)
  \/ TasksTimerFire
  \/ \E i \in DOMAIN tasksCalls : TasksFindFileDone(i)
  \/ \E i \in DOMAIN tasksCalls : TasksWriteDone(i)
InitHydrateEdit ==
  /\ InitHydrateLimits([edits |-> HydrateEdits, syncs |-> 0, fails |-> 0])
  /\ CacheInSync
SpecHydrateEdit == InitHydrateEdit /\ [][HydrateEditNext]_vars

\* The app is mounted: the database is being opened, the mount effect of
\* useSearch has called buildIndex, the syncToDb effect has run once and
\* returned (dataLoaded is false), and the collections are empty or hold the
\* records an earlier session left.
StaleStore == [journal |-> [d \in Dates |-> IF d = "d2" THEN "b" ELSE Undefined],
               tasks |-> {[id |-> 2, completed |-> TRUE]},
               notes |-> [n \in NoteIds |-> "a"]]
InitDbSync ==
  /\ InitHydrateSession(DbSyncFails)
  /\ isDbReady = FALSE
  /\ dbStore \in {EmptyStore, StaleStore}
  /\ lastSync = 0
  /\ searchIndex = FreshIndex
  /\ mountBuild = "read"
  /\ dbSyncRuns = [r \in DbRuns |-> IdleDbRun]
  /\ dbDeps = SyncToDbDeps
DbSyncSessionNext == HydrateNext \/ DbOpen \/ MountBuildDone \/ DbSyncNext
SpecDbSync == InitDbSync /\ [][DbSyncSessionNext]_vars

\* The text of note files: a note is written to a file text and read back.
RECURSIVE StringsUpTo(_, _)
StringsUpTo(chars, n) ==
  IF n = 0 THEN {<<>>}
  ELSE StringsUpTo(chars, n - 1)
         \cup {Append(str, c) : str \in StringsUpTo(chars, n - 1), c \in chars}
Titles       == StringsUpTo({"a", " "}, MaxTitle)
NoteContents == StringsUpTo({"a", "\n", "---"}, MaxContent)
Stamps       == {<<"t1">>, <<"t2">>}
Folders      == {<<"a">>, Root}
NoteFormatNext == SerializeNote \/ ParseNote
InitNoteFormat ==
  /\ InitLoaded([edits |-> 0, syncs |-> 0, fails |-> 0], TRUE)
  /\ isAuthenticated = TRUE
  /\ isDemo = FALSE
  /\ accessToken = Token
  /\ savedToken = TRUE
  /\ tokenExpired = FALSE
  /\ userEmail = "u1"
  /\ noteIn \in [title : Titles, folder : Folders, createdAt : Stamps,
                  updatedAt : Stamps, content : NoteContents]
  /\ noteRaw = NoText
  /\ noteOut = NoNote
SpecNoteFormat == InitNoteFormat /\ [][NoteFormatNext]_vars

\* The local cache and the search index next to the autosave of the journal
\* and the task list.
CacheNext == AutosaveNext \/ DbSyncNext
SpecCache == InitAutosave /\ [][CacheNext]_vars

\* The saves of the Drive hook, as notes (saved at once) and journal entries
\* (saved by their timers) issue them.
DriveNext == JournalNext \/ NotesNext
InitDrive == InitWith([edits |-> DriveEdits, syncs |-> 0, fails |-> DriveFails])
SpecDrive == InitDrive /\ [][DriveNext]_vars

\* The task list under addTask with any clock reading and any argument, the
\* other task mutations and the debounced saves.
AllTaskIds == TaskIds \cup Clock
TaskIdsNext ==
  \/ \E now \in Clock, given \in {NoId} \cup AllTaskIds : AddTaskAt(now, given)
  \/ \E t \in AllTaskIds, b \in BOOLEAN : UpdateTask(t, b)
  \/ \E t \in AllTaskIds : DeleteTask(t)
  \/ \E t \in AllTaskIds : ToggleTask(t)
  \/ TasksTimerFire
  \/ \E i \in DOMAIN tasksCalls : TasksFindFileDone(i)
  \/ \E i \in DOMAIN tasksCalls : TasksWriteDone(i)
InitTaskIds == InitWith([edits |-> TaskIdEdits, syncs |-> 0, fails |-> 0])
SpecTaskIds == InitTaskIds /\ [][TaskIdsNext]_vars

\* The edits and their debounced saves in a session where no request fails,
\* every timer that is pending fires and every request is answered.
PersistLimits == [edits |-> PersistEdits, syncs |-> 0, fails |-> 0]
InitPersist == InitWith(PersistLimits)
TimersFireAndRequestsReturn ==
  /\ \A d \in Dates : WF_vars(JournalTimerFire(d))
  /\ \A id \in Slots(PersistLimits) : WF_vars(FindFileDone(id)) /\ WF_vars(WriteDone(id))
  /\ WF_vars(TasksTimerFire)
  /\ \A i \in Slots(PersistLimits) : WF_vars(TasksFindFileDone(i)) /\ WF_vars(TasksWriteDone(i))
SpecPersist == InitPersist /\ [][AutosaveNext]_vars /\ TimersFireAndRequestsReturn

\* Notes are added, updated and deleted; their saves and deletes overlap and
\* no request fails.
DeleteNext ==
  \/ NotesNext
  \/ \E n \in NoteIds : DeleteNote(n)
  \/ \E id \in DOMAIN saveCalls : FindFileDone(id)
  \/ \E id \in DOMAIN saveCalls : WriteDone(id)
  \/ \E id \in DOMAIN saveCalls : DeleteFindFileDone(id)
  \/ \E id \in DOMAIN saveCalls : DeleteDone(id)
InitDelete == InitWith([edits |-> DeleteEdits, syncs |-> 0, fails |-> 0])
SpecDelete == InitDelete /\ [][DeleteNext]_vars

\* The saves of the Drive hook as notes issue them (at once, so that they
\* overlap), where every remote request is answered in the end: a findFile or
\* a write that is pending does not stay pending forever.
SettleNext ==
  \/ NotesNext
  \/ \E id \in DOMAIN saveCalls : FindFileDone(id)
  \/ \E id \in DOMAIN saveCalls : WriteDone(id)
SettleLimits == [edits |-> SettleEdits, syncs |-> 0, fails |-> SettleFails]
InitSettle == InitWith(SettleLimits)
RequestsAnswered ==
  \A id \in Slots(SettleLimits) : WF_vars(FindFileDone(id)) /\ WF_vars(WriteDone(id))
SpecSettle == InitSettle /\ [][SettleNext]_vars /\ RequestsAnswered

\* ============================================================ claims
CallsOf(key)  == {id \in DOMAIN saveCalls : saveCalls[id].pc # "idle" /\ saveCalls[id].key = key}
WritesOf(key) == {id \in DOMAIN saveCalls : saveCalls[id].pc = "write" /\ saveCalls[id].key = key}
Requests(key) == driveLog[key].creates + driveLog[key].updates

\* C1: concurrent saveJournalEntry / saveNote calls on a key with no remote file
\* create exactly one remote file for the key, and once they have all completed
\* that file holds the content of the last call to complete.  (No action of the
\* model deletes a file, so a second file of a key is a second createFile.)
C1_OneFileLastContent ==
  \A k \in Keys :
    /\ Len(driveFiles[k]) <= 1
    /\ (driveLog[k].creates >= 1 /\ CallsOf(k) = {} /\ driveLog[k].last # Undefined)
         => driveFiles[k] = <<driveLog[k].last>>

\* C2: at every instant at most one remote write (createFile or updateFile) of
\* saveJournalEntry / saveNote is in flight for a key.
C2_OneWriteInFlight ==
  \A k \in Keys : Cardinality(WritesOf(k)) <= 1

\* A mutation of the task list: addTask, updateTask, deleteTask or toggleTask.
TaskMutation ==
  \E t \in TaskIds :
    AddTask(t) \/ DeleteTask(t) \/ ToggleTask(t) \/ \E b \in BOOLEAN : UpdateTask(t, b)

\* What of a date / of the task list is known to be in the remote store: the
\* last content saved or loaded, and what the files hold.
PersistedContents(date) ==
  {Undefined, originalJournalContent[date], OriginalOrEmpty(date)}
    \cup Range(driveFiles[JournalKey(date)])
PersistedTasks == IF originalTasks = NullTasks THEN Stringify(<<>>) ELSE originalTasks
\* No task list was ever saved or loaded and the list in memory is empty.
NothingToSave == originalTasks = NullTasks /\ tasks = <<>>

\* C3: refreshSingleEntry and refreshTasks never overwrite an unsaved local edit:
\* whenever the download of a refresh replaces the entry of a date (or the task
\* list), the value replaced was already in the remote store.
C3_RefreshKeepsUnsaved ==
  [][ /\ \A d \in Dates :
           (RefreshDownloadDone(d) /\ journalEntries'[d] # journalEntries[d])
             => journalEntries[d] \in PersistedContents(d)
      /\ (RefreshTasksDownloadDone /\ tasks' # tasks)
             => (Stringify(tasks) = PersistedTasks \/ tasks \in Range(driveTasksFiles))
    ]_vars

\* C4: refreshSingleEntry(K) called while K is dirty returns the in-memory
\* content of K, leaves entry and original snapshot alone and starts no fetch;
\* refreshTasks() called while tasksDirty returns the local task list and starts
\* no fetch.
C4_DirtyRefreshReturnsLocal ==
  [][ /\ \A d \in Dates :
           (RefreshSingleEntry(d) /\ Remote /\ d \in Range(dirtyJournals))
             => /\ refreshResult' = EntryResult(d, journalEntries[d])
                /\ UNCHANGED <<journalEntries, originalJournalContent, refreshEntryRun>>
      /\ (RefreshTasks /\ Remote /\ tasksDirty)
             => /\ refreshResult' = TasksResult(FALSE, tasks)
                /\ UNCHANGED <<tasks, originalTasks, refreshTasksRun>>
    ]_vars

\* C5: in every reachable state a date is in dirtyJournals iff its in-memory
\* content differs from the content last persisted or loaded for it, and
\* tasksDirty holds iff the serialized task list differs from the last one
\* persisted or loaded.
C5_DirtyIffDiffers ==
  /\ \A d \in Dates :
       (d \in Range(dirtyJournals))
         <=> (journalEntries[d] # Undefined /\ journalEntries[d] # OriginalOrEmpty(d))
  /\ ~NothingToSave => (tasksDirty <=> (Stringify(tasks) # originalTasks))

\* C6: a dirty marker is cleared only by a successful remote write of that
\* entity: in every step that takes a date out of dirtyJournals (or resets
\* tasksDirty) the remote store holds the entity's latest in-memory value.
C6_ClearedOnlyWhenWritten ==
  [][ /\ \A d \in Dates :
           (d \in Range(dirtyJournals) /\ d \notin Range(dirtyJournals'))
             => journalEntries'[d] \in Range(driveFiles'[JournalKey(d)])
      /\ (tasksDirty /\ ~tasksDirty') => tasks' \in Range(driveTasksFiles')
    ]_vars

\* C7: edits of one key within one debounce window are coalesced: each edit
\* cancels the timer of the previous one, so that after an edit the only timer
\* pending for the key (if any) is the one that writes that edit's content.
C7_TimerCarriesLastEdit ==
  [][ /\ \A d \in Dates, c \in Contents :
           UpdateJournalEntry(d, c) => journalSaveTimeout'[d] \in {NoTimer, c}
      /\ TaskMutation
           => tasksSaveTimeout' \in {NoTasksTimer, [pending |-> TRUE, tasks |-> tasks']}
    ]_vars

\* C8: updateJournalEntry(date, content) with content equal to the original
\* snapshot of the date, and a task mutation whose result serializes to the
\* original task snapshot, change neither dirtyJournals nor tasksDirty nor
\* syncStatus, and schedule no timer and no remote write.
C8_NoChangeNoEffect ==
  [][ /\ \A d \in Dates, c \in Contents :
           (UpdateJournalEntry(d, c) /\ c = OriginalOrEmpty(d))
             => UNCHANGED <<dirtyJournals, tasksDirty, syncStatus, journalSaveTimeout,
                            tasksSaveTimeout, saveCalls, tasksCalls, pendingSaves,
                            driveFiles, driveLog>>
      /\ (TaskMutation /\ Stringify(tasks') = originalTasks)
             => UNCHANGED <<dirtyJournals, tasksDirty, syncStatus, journalSaveTimeout,
                            tasksSaveTimeout, saveCalls, tasksCalls, pendingSaves,
                            driveTasksFiles, driveLog>>
    ]_vars
\* updateJournalEntry("d2", "") on a date with neither entry nor snapshot has run
C8_Witness ==
  /\ nEdits = 1
  /\ journalEntries["d2"] = ""
  /\ originalJournalContent["d2"] = Undefined
  /\ dirtyJournals = <<>>
  /\ journalSaveTimeout["d2"] = NoTimer
  /\ syncStatus = "synced"

\* C9: after one edit that changes the content of a date and no further edit,
\* exactly one remote write is made for the date: the write pending or in flight
\* carries the new content, it is an updateFile iff the file exists, no second
\* one follows, and once it has succeeded the file holds the new content, the
\* date is not dirty and its original snapshot is the new content.
C9_OneEditOneWrite ==
  nEdits = 1 =>
    \A d \in Dates :
      LET k       == JournalKey(d)
          timers  == IF journalSaveTimeout[d] = NoTimer THEN 0 ELSE 1
          onItsWay == {journalSaveTimeout[d]} \cup {saveCalls[id].content : id \in CallsOf(k)}
      IN /\ Requests(k) + Cardinality(CallsOf(k)) + timers <= 1
         /\ (d \in Range(dirtyJournals) /\ nFails = 0)
              => Requests(k) = 0 /\ journalEntries[d] \in onItsWay
         /\ \A id \in WritesOf(k) : (saveCalls[id].fileId # 0) <=> (driveFiles[k] # <<>>)
         /\ (Requests(k) = 1 /\ driveLog[k].last # Undefined)
              => /\ driveLog[k].last = journalEntries[d]
                 /\ driveFiles[k] = <<journalEntries[d]>>
                 /\ d \notin Range(dirtyJournals)
                 /\ originalJournalContent[d] = journalEntries[d]
\* the one edit of d1 ("a" to "b") has been written by an updateFile that succeeded
C9_Witness ==
  /\ nEdits = 1
  /\ driveLog[JournalKey("d1")] = [creates |-> 0, updates |-> 1, last |-> "b"]
  /\ journalEntries["d1"] = "b"
  /\ originalJournalContent["d1"] = "b"
  /\ dirtyJournals = <<>>

\* C10: when forceSync finishes with syncStatus 'synced', dirtyJournals is
\* empty, tasksDirty is false, and the original snapshot of every entity that
\* was dirty when forceSync started equals its in-memory value at that moment.
C10_ForceSyncLeavesClean ==
  [][ (/\ forceSyncRun.pc # "idle" \/ ForceSync
       /\ Remote
       /\ forceSyncRun'.pc = "idle"
       /\ syncStatus' = "synced")
        => LET started  == IF forceSyncRun.pc = "idle" THEN dirtyJournals
                           ELSE forceSyncRun.startDates
               hadTasks == IF forceSyncRun.pc = "idle" THEN tasksDirty
                           ELSE forceSyncRun.tasksDirty
           IN /\ dirtyJournals' = <<>>
              /\ ~tasksDirty'
              /\ \A d \in Range(started) : originalJournalContent'[d] = journalEntries'[d]
              /\ hadTasks => originalTasks' = Stringify(tasks')
    ]_vars

\* C11: a persist failure during forceSync does not make it abandon the rest:
\* when a forceSync call ends, a save of every date that was dirty when it
\* started and (if the task list was dirty) of the task list has been attempted.
C11_ForceSyncAttemptsAll ==
  [][ (forceSyncRun.pc # "idle" /\ forceSyncRun'.pc = "idle")
        => /\ forceSyncRun.dates = <<>>
           /\ forceSyncRun.tasksDirty => forceSyncRun.pc = "tasks"
    ]_vars

\* A saveJournalEntry call of the given kind for a date fails in this step: its
\* findFile or its write is rejected, or the pending save it waits for is.
SaveFails(kind, date) ==
  /\ nFails' = nFails + 1
  /\ \E id \in DOMAIN saveCalls :
       /\ saveCalls[id].pc # "idle"
       /\ saveCalls[id].kind = kind
       /\ saveCalls[id].key = JournalKey(date)
       /\ saveCalls'[id].pc = "idle"
\* A saveTasks call of the given kind fails in this step.
TasksSaveFails(kind) ==
  /\ nFails' = nFails + 1
  /\ \E i \in DOMAIN tasksCalls :
       /\ tasksCalls[i].pc # "idle"
       /\ tasksCalls[i].kind = kind
       /\ tasksCalls'[i].pc = "idle"
\* The saves of the other journal dates are left as they are.
OtherDatesUntouched(date) ==
  \A d \in Dates \ {date} :
    /\ journalSaveTimeout'[d] = journalSaveTimeout[d]
    /\ pendingSaves'[JournalKey(d)] = pendingSaves[JournalKey(d)]
    /\ \A id \in DOMAIN saveCalls :
         saveCalls[id].key = JournalKey(d) => saveCalls'[id] = saveCalls[id]

HasUnsavedChanges == dirtyJournals # <<>> \/ tasksDirty

\* A saveNote call for a note fails in this step.
NoteSaveFails(n) ==
  /\ nFails' = nFails + 1
  /\ \E id \in DOMAIN saveCalls :
       /\ saveCalls[id].pc # "idle"
       /\ saveCalls[id].key = NoteKey(n)
       /\ saveCalls'[id].pc = "idle"

\* C13: no remote failure silently discards an edit: after a failed save (debounced,
\* by forceSync, or the immediate save of a note) the edited value is still in
\* memory and the entity is still marked unsaved: the date is in dirtyJournals,
\* tasksDirty is set, and for a note (which has no marker of its own) the app at
\* least reports unsaved changes or a sync error.
C13_FailureKeepsEditUnsaved ==
  [][ /\ \A d \in Dates, kind \in {"debounce", "force"} :
           SaveFails(kind, d)
             => journalEntries'[d] = journalEntries[d] /\ d \in Range(dirtyJournals')
      /\ \A kind \in {"debounce", "force"} :
           TasksSaveFails(kind) => tasks' = tasks /\ tasksDirty'
      /\ \A n \in NoteIds :
           NoteSaveFails(n)
             => notes'[n] = notes[n] /\ (HasUnsavedChanges' \/ syncStatus' = "error")
    ]_vars

\* C14: a task created while the user is not signed in or is a demo identity
\* appears first in the in-memory list, starts no remote call and raises no
\* dirty flag: tasksDirty stays false and hasUnsavedChanges does not become true.
C14_DemoTaskNotDirty ==
  [][ (~Remote /\ \E t \in TaskIds : AddTask(t))
        => /\ Len(tasks') = Len(tasks) + 1
           /\ Tail(tasks') = tasks
           /\ UNCHANGED <<tasksCalls, saveCalls, driveTasksFiles>>
           /\ ~tasksDirty'
           /\ HasUnsavedChanges' => HasUnsavedChanges
    ]_vars

\* C15: after the signed-in identity changed, no file id that was resolved under
\* the previous identity is used for a remote operation of the new identity,
\* whatever was in flight at the change: every updateFile a call dispatches
\* carries the id of a file of the account the call acts for.
C15_NoStaleIdAfterUserChange ==
  \A id \in DOMAIN saveCalls : saveCalls[id].pc = "write" => ~Foreign(saveCalls[id])

\* C16: a remote-store operation whose token (as getAccessToken returns it) is
\* absent or past its expiry time fails as not authenticated and issues no
\* remote request: the save a timer starts ends at once with syncStatus 'error'
\* and no call is left in flight.
C16_FailsFastWithoutToken ==
  [][ /\ \A d \in Dates :
           (JournalTimerFire(d) /\ Remote /\ (GetAccessToken = Null \/ tokenExpired))
             => saveCalls' = saveCalls /\ syncStatus' = "error"
      /\ (TasksTimerFire /\ Remote /\ (GetAccessToken = Null \/ tokenExpired))
             => tasksCalls' = tasksCalls /\ syncStatus' = "error"
    ]_vars

\* C17: when a step of hydration fails (no token, folder resolution, listing,
\* a download, the task list, the notes listing), dataLoaded becomes true,
\* syncStatus becomes 'error' and the error message is recorded; and once a
\* hydration has failed, dataLoaded stays true and no loadDataFromDrive call is
\* started again.
HydrationFails ==
  \/ LoadDataFromDrive /\ Remote /\ ~dataLoaded /\ GetAccessToken = Null
  \/ \E r \in LoadRuns : /\ loadRuns[r].pc # "idle"
                          /\ loadRuns'[r].pc = "idle"
                          /\ nFails' = nFails + 1
C17_FailedHydrationIsFinal ==
  [][ /\ HydrationFails => dataLoaded' /\ syncStatus' = "error" /\ syncError' # Null
      /\ syncError # Null
           => /\ dataLoaded /\ dataLoaded'
              /\ \A r \in LoadRuns : loadRuns[r].pc = "idle" => loadRuns'[r].pc = "idle"
    ]_vars
\* The tasks step failed after the folders were resolved and the entry of d1
\* was loaded, and the effect ran once more since and returned.
C17_Witness ==
  /\ ~tokenExpired
  /\ syncError = RequestFailed
  /\ syncStatus = "error"
  /\ dataLoaded
  /\ folders
  /\ ~effectPending
  /\ journalEntries["d1"] = "a"
  /\ tasks = <<>>
  /\ \A r \in LoadRuns : loadRuns[r].pc = "idle"

\* C18: for every note, parseNoteContent applied to the text saveNote builds
\* yields the note's title, folder, content, createdAt and updatedAt, also when
\* the content holds the delimiter '---' on a line of its own.
C18_NoteRoundTrip ==
  noteOut # NoNote
    => /\ noteOut.title = noteIn.title
       /\ noteOut.folder = noteIn.folder
       /\ noteOut.content = noteIn.content
       /\ noteOut.createdAt = noteIn.createdAt
       /\ noteOut.updatedAt = noteIn.updatedAt

\* C19: the local cache and the search index follow the entities in memory:
\* once the work an entity mutation triggered has settled (the syncToDb effect
\* is not due and its calls have returned), the record and the indexed
\* document of every journal entry, task and note hold its present value.
C19_CacheFollowsEntities ==
  (dbDeps = SyncToDbDeps /\ \A r \in DbRuns : dbSyncRuns[r].pc = "idle")
    => dbStore = Records(Entities) /\ searchIndex = BuiltIndex(Records(Entities))

\* C20: a save B of a key requested while a save A of the same key is in flight
\* waits for A to settle and then goes on to its own remote write with B's
\* content, whether A succeeded or failed: when a write with waiting calls
\* settles, each of them goes on (to findFile or to its write) with its content.
C20_WaiterWritesAfterAnyOutcome ==
  [][ \A id \in DOMAIN saveCalls :
        (WriteDone(id) /\ saveCalls[id].waiters # <<>>)
          => \A w \in Range(saveCalls[id].waiters) :
               /\ saveCalls'[w].pc \in {"findFile", "write"}
               /\ saveCalls'[w].key = saveCalls[w].key
               /\ saveCalls'[w].content = saveCalls[w].content
    ]_vars

\* C21: a save registers its promise in pendingSaves before it awaits network
\* I/O, so that no other save of the key runs between its look at pendingSaves
\* and its registration: while a call is suspended in between (at its findFile),
\* every other call in progress for the key is one that waits for a pending save.
C21_RegisteredBeforeAwait ==
  \A k \in Keys : \A id \in CallsOf(k) :
    saveCalls[id].pc = "findFile"
      => \A other \in CallsOf(k) \ {id} : saveCalls[other].pc = "awaitPending"

\* C22: when every remote request is answered in the end, every saveJournalEntry
\* / saveNote call settles in the end (none waits forever for a pending save),
\* and when no call of a key is in progress pendingSaves holds no entry for the
\* key, whether its saves succeeded or failed.
C22_SavesSettle ==
  /\ [](\A k \in Keys : CallsOf(k) = {} => pendingSaves[k] = 0)
  /\ \A id \in Slots(SettleLimits) :
       (saveCalls[id].pc # "idle") ~> (saveCalls[id].pc = "idle")
\* The saves of a note have settled, the create failed and a later save, which
\* had waited for it, with it; nothing is pending.
C22_Witness ==
  /\ nEdits = 2
  /\ nFails = 1
  /\ CallsOf(NoteKey("n1")) = {}
  /\ driveLog[NoteKey("n1")] = [creates |-> 1, updates |-> 0, last |-> Undefined]
  /\ pendingSaves[NoteKey("n1")] = 0

\* The saveJournalEntry and saveTasks calls of forceSync that have not returned.
ForceJournalCalls ==
  {id \in DOMAIN saveCalls : saveCalls[id].pc # "idle" /\ saveCalls[id].kind = "force"}
ForceTasksCalls ==
  {i \in DOMAIN tasksCalls : tasksCalls[i].pc # "idle" /\ tasksCalls[i].kind = "force"}

\* A step in which a forceSync call reaches setSyncStatus('synced').
ForceSyncSucceeds ==
  /\ forceSyncRun.pc # "idle"
  /\ forceSyncRun'.pc = "idle"
  /\ syncStatus' = "synced"

\* C23: forceSync cancels every debounce timer pending when it starts; it has at
\* most one save in flight at a time, which is the save of the next date of its
\* loop after the dates already written; and when it reaches 'synced' it has
\* written every date that was dirty at its start exactly once, in order, and
\* the task list (if dirty) in its last step.
C23_ForceSyncWritesOnce ==
  /\ [](/\ Cardinality(ForceJournalCalls) + Cardinality(ForceTasksCalls) <= 1
        /\ forceSyncRun.pc = "journal"
             => /\ forceSyncRun.written \o <<forceSyncRun.date>> \o forceSyncRun.dates
                     = forceSyncRun.startDates
                /\ \A id \in ForceJournalCalls :
                     saveCalls[id].key = JournalKey(forceSyncRun.date)
                /\ ForceJournalCalls # {}
        /\ forceSyncRun.pc = "tasks"
             => /\ forceSyncRun.written = forceSyncRun.startDates
                /\ ForceTasksCalls # {})
  /\ [][ForceSync /\ Remote
          => /\ \A d \in Dates : journalSaveTimeout'[d] = NoTimer
             /\ tasksSaveTimeout' = NoTasksTimer]_vars
  /\ [][ForceSyncSucceeds
          => /\ forceSyncRun.pc = "journal"
                  => Append(forceSyncRun.written, forceSyncRun.date)
                       = forceSyncRun.startDates
             /\ forceSyncRun.pc = "tasks"
                  => forceSyncRun.written = forceSyncRun.startDates
             /\ forceSyncRun.tasksDirty => forceSyncRun.pc = "tasks"]_vars

\* Two dates were dirty; forceSync has written the first date
\* and awaits the write of the second.
C23_Witness ==
  /\ forceSyncRun.pc = "journal"
  /\ Len(forceSyncRun.startDates) = 2
  /\ Len(forceSyncRun.written) = 1
  /\ nFails = 0

\* A step in which a forceSync call ends in its catch block.
ForceSyncFails ==
  /\ forceSyncRun.pc # "idle"
  /\ forceSyncRun'.pc = "idle"
  /\ syncStatus' = "error"

\* C24: when a forceSync call ends with a failed write, every date it has
\* written before (and that was not edited since the call began) is no longer
\* in the dirty set.
C24_WrittenDatesCleared ==
  [][ForceSyncFails
       => \A i \in DOMAIN forceSyncRun.written :
            LET d == forceSyncRun.written[i] IN
              journalEntries'[d] = forceSyncRun.entries[d]
                => d \notin Range(dirtyJournals')]_vars

\* Hydration has completed without an error (and nothing was edited: the
\* hydration specification has no edit).
HydratedOk == dataLoaded /\ syncError = Null /\ syncStatus = "synced"

\* Nothing is marked dirty and every hydrated date has its content as baseline.
JournalBaselineSeeded ==
  /\ dirtyJournals = <<>>
  /\ ~tasksDirty
  /\ \A d \in Dates :
       journalEntries[d] # Undefined
         => /\ originalJournalContent[d] = journalEntries[d]
            /\ journalEntries[d] = OriginalOrEmpty(d)

\* C25: after a successful hydration nothing is dirty, every hydrated date has
\* its in-memory content as original snapshot and the original task snapshot is
\* the serialization of the in-memory task list, so that updateJournalEntry and
\* syncTasksToDriver see 'no change' for the hydrated values.
C25_HydrationNeverDirty ==
  HydratedOk => JournalBaselineSeeded /\ originalTasks = Stringify(tasks)

\* C25 as the code has it: the task baseline is the serialization of the task
\* list when a task file was downloaded; without a task file on the remote the
\* list stays empty and the baseline stays null.
C25_HydrationSeedsDownloaded ==
  HydratedOk
    => /\ JournalBaselineSeeded
       /\ IF driveTasksFiles # <<>>
            THEN originalTasks = Stringify(tasks)
            ELSE originalTasks = NullTasks /\ tasks = <<>>

\* A journal entry and a task list were downloaded by a successful hydration.
C25_Witness ==
  /\ HydratedOk
  /\ journalEntries["d1"] = "a"
  /\ tasks = InitialTasks
  /\ originalTasks = Stringify(InitialTasks)

\* The loadDataFromDrive calls that have passed their guard and not returned.
LoadsInProgress == {r \in LoadRuns : loadRuns[r].pc # "idle"}

\* C26: hydration runs once in a session: no loadDataFromDrive call passes its
\* guard while another one is in progress, and none passes it once dataLoaded
\* is true.
C26_HydrationRunsOnce ==
  [][\A r \in LoadRuns :
       loadRuns[r].pc = "idle" /\ loadRuns'[r].pc # "idle"
         => LoadsInProgress = {} /\ ~dataLoaded]_vars

\* A step in which refreshSingleEntry(d) returns after its fetch / refreshTasks
\* returns after its fetch.
EntryRefreshReturns(d) == refreshEntryRun[d] # "idle" /\ refreshEntryRun'[d] = "idle"
TasksRefreshReturns == refreshTasksRun # "idle" /\ refreshTasksRun' = "idle"

\* C27: a refresh runs only for an entity that is not dirty; when it returns the
\* fetched content, the in-memory value and the original snapshot are that
\* content and the entity, if no edit marked it meanwhile, is not dirty; when
\* the remote has no file or the fetch fails, the in-memory value and the
\* original snapshot are unchanged.
C27_RefreshReplacesAndReseeds ==
  /\ [][\A d \in Dates :
          /\ refreshEntryRun[d] = "idle" /\ refreshEntryRun'[d] # "idle"
               => d \notin Range(dirtyJournals)
          /\ EntryRefreshReturns(d)
               => IF driveFiles[JournalKey(d)] # <<>> /\ nFails' = nFails
                    THEN /\ refreshResult' = EntryResult(d, driveFiles[JournalKey(d)][1])
                         /\ journalEntries'[d] = refreshResult'.content
                         /\ originalJournalContent'[d] = refreshResult'.content
                         /\ d \notin Range(dirtyJournals)
                              => d \notin Range(dirtyJournals')
                    ELSE /\ journalEntries'[d] = journalEntries[d]
                         /\ originalJournalContent'[d] = originalJournalContent[d]
                         /\ refreshResult' = EntryResult(d, Null)]_vars
  /\ [][/\ refreshTasksRun = "idle" /\ refreshTasksRun' # "idle" => ~tasksDirty
        /\ TasksRefreshReturns
             => IF driveTasksFiles # <<>> /\ nFails' = nFails
                  THEN /\ refreshResult' = TasksResult(FALSE, driveTasksFiles[1])
                       /\ tasks' = refreshResult'.tasks
                       /\ originalTasks' = Stringify(refreshResult'.tasks)
                       /\ tasksDirty' = tasksDirty
                  ELSE /\ tasks' = tasks
                       /\ originalTasks' = originalTasks]_vars

\* refreshSingleEntry(d1) has fetched the content 'b' that a save had put on
\* the remote after two edits, and d1 is not dirty.
C27_Witness ==
  /\ refreshResult = EntryResult("d1", "b")
  /\ journalEntries["d1"] = "b"
  /\ originalJournalContent["d1"] = "b"
  /\ "d1" \notin Range(dirtyJournals)
  /\ nEdits = 2

\* C28: the debounce timers are keyed per entity: an edit of a journal date
\* leaves the timers of the other dates and the task-list timer as they are, a
\* task-list edit leaves every journal timer as it is, and a pending timer
\* changes only by an edit of its own entity or by firing, so the write of
\* every edited entity is still due.
C28_TimersPerEntity ==
  [][ /\ \A d \in Dates, c \in Contents :
           UpdateJournalEntry(d, c)
             => /\ \A other \in Dates \ {d} :
                     journalSaveTimeout'[other] = journalSaveTimeout[other]
                /\ tasksSaveTimeout' = tasksSaveTimeout
      /\ TaskMutation => journalSaveTimeout' = journalSaveTimeout
      /\ \A d \in Dates :
           journalSaveTimeout'[d] # journalSaveTimeout[d]
             => \/ \E c \in Contents : UpdateJournalEntry(d, c)
                \/ JournalTimerFire(d)
      /\ tasksSaveTimeout' # tasksSaveTimeout => TaskMutation \/ TasksTimerFire
    ]_vars

\* The timers of both dates are pending: the edit of the second date did not
\* cancel the timer of the first.
C28_Witness ==
  /\ journalSaveTimeout["d1"] # NoTimer
  /\ journalSaveTimeout["d2"] # NoTimer
  /\ nEdits = 2

\* No syncToDb call and no buildIndex call is in progress.
DbSyncIdle == mountBuild = "idle" /\ \A r \in DbRuns : dbSyncRuns[r].pc = "idle"

\* The effect has run for the present dependencies with the data loaded and the
\* database ready, and the call it made has returned.
DbSyncSettled == dataLoaded /\ isDbReady /\ dbDeps = SyncToDbDeps /\ DbSyncIdle

\* C29: a bulk replace of the local cache begins only once hydration is over and
\* the database is ready; the index rebuild of a syncToDb call begins only when
\* its bulk replace has ended (after the write of syncMeta, or after a rejected
\* bulkPut); and once the calls have returned the index holds exactly the
\* documents of the records of the local cache, which, when no request failed,
\* are the records of the hydrated entities.
C29_ReplaceThenRebuild ==
  /\ [][\A r \in DbRuns :
          /\ dbSyncRuns[r].pc = "idle" /\ dbSyncRuns'[r].pc # "idle"
               => dataLoaded /\ isDbReady /\ dbSyncRuns'[r].pc = "clear"
          /\ dbSyncRuns[r].pc # "build" /\ dbSyncRuns'[r].pc = "build"
               => \/ dbSyncRuns[r].pc = "meta"
                  \/ dbSyncRuns[r].pc = "put" /\ dbSyncRuns'[r].failed]_vars
  /\ [](DbSyncSettled
          => /\ searchIndex = BuiltIndex(dbStore)
             /\ nFails = 0 => lastSync > 0 /\ dbStore = Records(Entities))

\* After a hydration that downloaded an entry and a task, the effect has
\* replaced the records and rebuilt the index: two documents.
C29_Witness ==
  /\ DbSyncSettled
  /\ lastSync = 1
  /\ journalEntries["d1"] = "a"
  /\ dbStore = Records(Entities)
  /\ Cardinality(searchIndex) = 2

\* C30: when a syncAllToDb call that no other call overlapped returns after the
\* write of syncMeta (no bulkPut was rejected), each collection holds exactly
\* one record for every entity of its arguments, with the entity's value, and
\* no other record, and lastSync has been written.
C30_BulkReplaceExact ==
  [][\A r \in DbRuns :
       (DbMetaDone(r) /\ ~dbSyncRuns[r].overlapped)
         => LET args == dbSyncRuns[r].args IN
            /\ \A n \in NoteIds : dbStore'.notes[n] = args.notes[n]
            /\ \A d \in Dates : dbStore'.journal[d] = args.journal[d]
            /\ \A t \in TaskIds :
                 Cardinality({x \in dbStore'.tasks : x.id = t})
                   = (IF t \in IdsOf(args.tasks) THEN 1 ELSE 0)
            /\ \A i \in DOMAIN args.tasks : args.tasks[i] \in dbStore'.tasks
            /\ \A x \in dbStore'.tasks : x.id \in TaskIds
            /\ lastSync' # lastSync]_vars

\* A syncAllToDb call that nothing overlapped has returned: the store holds the
\* downloaded entry and task, and none of the records of the earlier session.
C30_Witness ==
  /\ \E r \in DbRuns :
       /\ dbSyncRuns[r].pc = "build"
       /\ ~dbSyncRuns[r].overlapped
       /\ ~dbSyncRuns[r].failed
       /\ dbSyncRuns[r].args.tasks = InitialTasks
  /\ lastSync = 1
  /\ dbStore.journal = [d \in Dates |-> IF d = "d1" THEN "a" ELSE Undefined]
  /\ dbStore.tasks = {InitialTasks[1]}

\* C31: no two tasks of the list share an id, whatever sequence of addTask,
\* updateTask, toggleTask and deleteTask calls was made (two addTask calls at
\* the same clock reading and an addTask argument with an id included).
C31_TaskIdsUnique == Cardinality(IdsOf(tasks)) = Len(tasks)

\* C32: whenever syncStatus is 'synced' nothing is unsaved: the dirty set is
\* empty and tasksDirty is false.
C32_SyncedMeansClean ==
  syncStatus = "synced" => (dirtyJournals = <<>> /\ ~tasksDirty)

\* What loadJournalEntry(date) / loadTasks() would download: the first file of
\* the name, nothing when there is none.
RemoteEntry(date) ==
  IF driveFiles[JournalKey(date)] = <<>> THEN "" ELSE driveFiles[JournalKey(date)][1]
RemoteTasks == IF driveTasksFiles = <<>> THEN <<>> ELSE driveTasksFiles[1]
MemoryEntry(date) == IF journalEntries[date] = Undefined THEN "" ELSE journalEntries[date]

Persisted ==
  /\ dirtyJournals = <<>>
  /\ ~tasksDirty
  /\ \A d \in Dates : RemoteEntry(d) = MemoryEntry(d)
  /\ RemoteTasks = tasks

\* C33: in an authenticated session where every remote operation succeeds,
\* once the user has stopped editing (the edits of a behaviour are finitely
\* many), eventually and from then on the dirty set is empty, tasksDirty is
\* false, and every journal date and the task list have on the remote the
\* value they have in memory.
C33_EventuallyPersisted == <>[]Persisted

\* C34: an edit back to the value of the original snapshot, made while the
\* debounce timer of an earlier edit to another value is pending, cancels that
\* pending write and leaves the entity clean (so the other value is never
\* written and never becomes the snapshot).
C34_EditBackCancels ==
  /\ [][ \A d \in Dates, c \in Contents :
           (UpdateJournalEntry(d, c) /\ journalSaveTimeout[d] # NoTimer
              /\ c = OriginalOrEmpty(d))
             => (journalSaveTimeout'[d] = NoTimer /\ d \notin Range(dirtyJournals')) ]_vars
  /\ [][ (TaskMutation /\ tasksSaveTimeout.pending /\ Stringify(tasks') = originalTasks)
           => (~tasksSaveTimeout'.pending /\ ~tasksDirty') ]_vars

\* C35: after the identity changed from u1 to u2, nothing that was edited or
\* loaded under u1 is written to the remote store of u2: as long as u2 has
\* edited nothing, the store of u2 holds no file.
C35_NothingOfPreviousIdentityWritten ==
  userEmail = "u2" =>
    /\ \A k \in Keys : driveFiles[k] = <<>>
    /\ driveTasksFiles = <<>>

\* C36: once deleteNote(id) has been called and the delete and every save of
\* the note requested before it have settled, no remote file of the note
\* exists and the file-id cache has no entry for it.
C36_DeleteIsFinal ==
  \A n \in NoteIds :
    (notes[n] = Undefined /\ CallsOf(NoteKey(n)) = {})
      => /\ FirstFile(driveFiles[NoteKey(n)]) = 0
         /\ fileIdCache[NoteKey(n)] = 0

\* C37: however saveTasks calls overlap, at most one tasks.json file is created
\* in the user folder, and once all calls have settled the original task
\* snapshot is the serialization of the remote task list.
C37_OneTasksFile ==
  /\ Len(driveTasksFiles) <= 1
  /\ (\A i \in DOMAIN tasksCalls : tasksCalls[i].pc = "idle")
       => originalTasks \in {NullTasks, Stringify(RemoteTasks)}

\* C38: hydration does not clobber local edits: a step of loadDataFromDrive
\* leaves the in-memory value and the original snapshot of every journal entry
\* that is dirty, and of the task list when it is dirty, as they are.
C38_HydrationKeepsDirty ==
  [][ HydrateNext =>
        /\ \A d \in Range(dirtyJournals) :
             /\ journalEntries'[d] = journalEntries[d]
             /\ originalJournalContent'[d] = originalJournalContent[d]
        /\ tasksDirty => (tasks' = tasks /\ originalTasks' = originalTasks) ]_vars

\* C39: however syncAllToDb calls overlap, when the last of them returns (none
\* of their requests having failed) each collection of the local cache holds
\* exactly the records of the arguments of that call, the one started last,
\* and no record of an earlier call.
C39_LastCallWins ==
  [][ \A r \in DbRuns :
        (DbMetaDone(r) /\ InSyncAll = {r} /\ nFails = 0)
          => dbStore' = Records(dbSyncRuns[r].args) ]_vars

\* C40: pendingSaves mirrors the writes in flight: as long as a remote write
\* that saveJournalEntry / saveNote dispatched for a key has not settled,
\* pendingSaves holds an entry for the key (the cleanup of one save does not
\* remove the registration of another save of the key that is still running).
C40_PendingMirrorsWrites ==
  \A k \in Keys : WritesOf(k) # {} => pendingSaves[k] # 0

====
